---- MODULE Spec2Model ----
(***************************************************************************)
(* Model of pergit's process runner, run_with_output (pergit/common.py):   *)
(* a child process writing lines to two pipes, two drain threads moving    *)
(* lines from the pipes into two queues (enqueue_lines), and the control   *)
(* thread polling the queues, joining the threads, building the RunResult, *)
(* and handling KeyboardInterrupt.                                         *)
(***************************************************************************)
EXTENDS Integers, Sequences, FiniteSets, TLC

\* ------------------------------------------------------------------ bounds
\* Number of lines the child writes in one run (both streams together).
MaxWrites == 2

\* process.wait(timeout=5): the grace period, in seconds.
GracePeriod == 5

\* --------------------------------------------------------------- constants
Streams == {"stdout", "stderr"}

\* Optional values: None is the empty set, Some(x) the singleton.
None == {}

Some(x) == {x}

The(o) == CHOOSE x \in o : TRUE

\* The text of the k-th line the child writes, without its line terminator;
\* every second line ends in a blank.
Texts == <<<<"a">>, <<"b", " ">>, <<"c">>, <<"d", " ">>, <<"e">>, <<"f", " ">>>>

\* Characters str.rstrip() removes from the end of a line.
Whitespace == {" ", "\n"}

\* Exit codes the child may exit with by itself.
ExitCodes == {0, 1}

VARIABLES
    spawnOk,      \* input: Popen can spawn the command
    handler,      \* input: on_output is supplied
    child,        \* "none" | "running" | "exited"
    exitcode,     \* the child's actual termination code, None while it has none
    nwrites,      \* lines written by the child so far
    open,         \* open[s]: a write end of pipe s is still open
    pipe,         \* pipe[s]: lines written and not yet read
    written,      \* written[s]: every line the child wrote to s (history)
    drain,        \* drain[s]: "unstarted" | "reading" | "done"
    queue,        \* queue[s]: output_queue / error_queue
    enq,          \* lines in the order they were put, over both queues (history)
    lines,        \* lines[s]: stdout_lines / stderr_lines
    calls,        \* on_output invocations, in order: [line, stream]
    pc,           \* position of the control thread
    line,         \* the line poll_queue_until_empty holds between append and cb
    seen,         \* what the current loop iteration observed
    final,        \* final[s]: final_stdout / final_stderr from communicate()
    returncode,   \* local returncode
    result,       \* the RunResult returned, None if none
    error,        \* exception that left run_with_output, None if none
    interrupted,  \* a KeyboardInterrupt was raised in the try block
    terminated,   \* process.terminate() was called
    killed,       \* process.kill() was called
    clock,        \* seconds process.wait(timeout=5) has waited for the running child
    status        \* exit status of the whole process after sys.exit, None if none

\* State of sync_command (pergit/sync.py) and of the git history it reads.
VARIABLES
    argv,         \* input: args.changelist, as text
    force,        \* input: args.force
    lastMsg,      \* subject of the last git commit, None if there is no commit
    spc,          \* position of sync_command
    site,         \* which p4_sync call is running: "head" | "last" | "target"
    cl,           \* p4_sync's changelist argument
    lastCl,       \* last_changelist
    fileCount,    \* file_count_to_sync
    proc,         \* output_processor, None if none was created
    writable,     \* writable_files
    idx,          \* position of the force loop in writable_files
    cmds,         \* child-process commands invoked by this run, in order (history)
    printed,      \* reasons printed by this run, in order
    ret,          \* value returned by sync_command, None if none
    runs          \* the runs of sync_command completed before this one

runnerVars == <<spawnOk, handler, child, exitcode, nwrites, open, pipe, written,
                drain, queue, enq, lines, calls, pc, line, seen, final,
                returncode, result, error, interrupted, terminated, killed,
                clock, status>>

syncVars == <<argv, force, lastMsg, spc, site, cl, lastCl, fileCount, proc,
              writable, idx, cmds, printed, ret, runs>>

\* State of one runner invocation whose handler is a P4SyncOutputProcessor
\* (held in proc), and of the files its lines name.
VARIABLES
    feed,         \* per stream: the child's lines not yet passed to the handler
    disk,         \* per file the lines name: what get_file_size reads, 0 if absent
    elapsed,      \* timer() - start_timestamp, in ticks of the timer
    obs,          \* the handler's calls in this invocation, in order (history)
    aggErr,       \* exception raised by the handler, None if none
    inv           \* runner invocations with an aggregator before this one

aggVars == <<feed, disk, elapsed, obs, aggErr, inv>>

\* State of edit_command (pergit/edit.py).
VARIABLES
    dry_run,      \* input: args.dry_run
    changelist,   \* changelist: args.changelist, then the one created for 'new'
    changes,      \* the LocalChanges of get_local_git_changes, None before
    epc,          \* position of edit_command
    eidx,         \* position of include_changes_in_changelist in its work
    ecmds,        \* calls of run() and subprocess.run() so far, in order (history)
    eret          \* value returned by edit_command, None if none

editVars == <<dry_run, changelist, changes, epc, eidx, ecmds, eret>>

vars == <<runnerVars, syncVars, aggVars, editVars>>

childVars == <<child, exitcode, nwrites, open, pipe, written>>

drainVars == <<drain, queue, enq>>

intVars == <<interrupted, terminated, killed, clock, status>>

\* ------------------------------------------------------------ pure helpers
RECURSIVE rstrip(_)
\* str.rstrip(): the text without its trailing whitespace.
rstrip(t) ==
    IF t # <<>> /\ t[Len(t)] \in Whitespace
    THEN rstrip(SubSeq(t, 1, Len(t) - 1))
    ELSE t

RECURSIVE splitlines(_)
\* str.splitlines(): the text cut at each "\n", terminators dropped.
splitlines(t) ==
    IF t = <<>> THEN <<>>
    ELSE LET nl == {i \in 1..Len(t) : t[i] = "\n"}
         IN  IF nl = {} THEN <<t>>
             ELSE LET i == CHOOSE j \in nl : \A k \in nl : j <= k
                  IN  <<SubSeq(t, 1, i - 1)>> \o splitlines(SubSeq(t, i + 1, Len(t)))

RECURSIVE Concat(_)
\* The text a sequence of lines makes up.
Concat(ls) == IF ls = <<>> THEN <<>> ELSE Head(ls) \o Concat(Tail(ls))

\* RunResult(returncode, stdout, stderr)
RunResult(rc, out, err) == [returncode |-> rc, stdout |-> out, stderr |-> err]

NoSeen == [exited |-> FALSE, stdout |-> FALSE, stderr |-> FALSE]

\* No aggregator is at work.
AggIdle ==
    /\ feed = [s \in Streams |-> <<>>]
    /\ disk = <<>>
    /\ elapsed = 0
    /\ obs = <<>>
    /\ aggErr = None
    /\ inv = 0

\* edit_command is not running.
EditIdle ==
    /\ dry_run = FALSE
    /\ changelist = <<>>
    /\ changes = None
    /\ epc = "off"
    /\ eidx = 0
    /\ ecmds = <<>>
    /\ eret = None

\* sync_command is not running.
SyncIdle ==
    /\ argv = <<>>
    /\ force = FALSE
    /\ lastMsg = None
    /\ spc = "off"
    /\ site = "none"
    /\ cl = None
    /\ lastCl = None
    /\ fileCount = 0
    /\ proc = None
    /\ writable = <<>>
    /\ idx = 0
    /\ cmds = <<>>
    /\ printed = <<>>
    /\ ret = None
    /\ runs = <<>>

\* --------------------------------------------------------------------- Init
Init ==
    /\ spawnOk \in BOOLEAN
    /\ handler \in BOOLEAN
    /\ child = "none"
    /\ exitcode = None
    /\ nwrites = 0
    /\ open = [s \in Streams |-> FALSE]
    /\ pipe = [s \in Streams |-> <<>>]
    /\ written = [s \in Streams |-> <<>>]
    /\ drain = [s \in Streams |-> "unstarted"]
    /\ queue = [s \in Streams |-> <<>>]
    /\ enq = <<>>
    /\ lines = [s \in Streams |-> <<>>]
    /\ calls = <<>>
    /\ pc = "start"
    /\ line = None
    /\ seen = NoSeen
    /\ final = [s \in Streams |-> <<>>]
    /\ returncode = None
    /\ result = None
    /\ error = None
    /\ interrupted = FALSE
    /\ terminated = FALSE
    /\ killed = FALSE
    /\ clock = 0
    /\ status = None
    /\ SyncIdle
    /\ AggIdle
    /\ EditIdle

\* -------------------------------------------------------------- the child
\* The child writes its next line to s.
ChildWrite(s) ==
    /\ child = "running"
    /\ open[s]
    /\ nwrites < MaxWrites
    /\ LET text == Texts[nwrites + 1] \o <<"\n">>
       IN  /\ pipe' = [pipe EXCEPT ![s] = Append(@, text)]
           /\ written' = [written EXCEPT ![s] = Append(@, text)]
    /\ nwrites' = nwrites + 1
    /\ UNCHANGED <<child, exitcode, open>>
    /\ UNCHANGED <<spawnOk, handler, drainVars, lines, calls, pc, line, seen,
                   final, returncode, result, error, intVars>>
    /\ UNCHANGED <<syncVars, aggVars, editVars>>

\* The last write end of pipe s is closed (by the child, at its exit, or
\* later by a descendant that inherited it).
ChildClose(s) ==
    /\ child # "none"
    /\ open[s]
    /\ open' = [open EXCEPT ![s] = FALSE]
    /\ UNCHANGED <<child, exitcode, nwrites, pipe, written>>
    /\ UNCHANGED <<spawnOk, handler, drainVars, lines, calls, pc, line, seen,
                   final, returncode, result, error, intVars>>
    /\ UNCHANGED <<syncVars, aggVars, editVars>>

\* The child ends by itself with code c (or, once terminate() was called,
\* by SIGTERM with -15).
ChildExit(c) ==
    /\ child = "running"
    /\ c \in ExitCodes \/ (terminated /\ c = -15)
    /\ child' = "exited"
    /\ exitcode' = Some(c)
    /\ UNCHANGED <<nwrites, open, pipe, written>>
    /\ UNCHANGED <<spawnOk, handler, drainVars, lines, calls, pc, line, seen,
                   final, returncode, result, error, intVars>>
    /\ UNCHANGED <<syncVars, aggVars, editVars>>

\* ------------------------------------------------- enqueue_lines (threads)
\* DrainLine with the handler invoked by the drain thread itself.
DrainLine_Callback(s) ==
    /\ status = None
    /\ drain[s] = "reading"
    /\ pipe[s] # <<>>
    /\ pipe' = [pipe EXCEPT ![s] = Tail(@)]
    /\ queue' = [queue EXCEPT ![s] = Append(@, rstrip(Head(pipe[s])))]
    /\ enq' = Append(enq, [line |-> rstrip(Head(pipe[s])), stream |-> s])
    /\ calls' = Append(calls, [line |-> rstrip(Head(pipe[s])), stream |-> s])
    /\ UNCHANGED <<child, exitcode, nwrites, open, written>>
    /\ UNCHANGED <<spawnOk, handler, drain, lines, pc, line, seen,
                   final, returncode, result, error, intVars>>
    /\ UNCHANGED <<syncVars, aggVars, editVars>>

\* One iteration of the loop: stream.readline() returns the next line and
\* output_queue.put(line.rstrip()) enqueues it.
DrainLine(s) ==
    /\ status = None
    /\ drain[s] = "reading"
    /\ pipe[s] # <<>>
    /\ pipe' = [pipe EXCEPT ![s] = Tail(@)]
    /\ queue' = [queue EXCEPT ![s] = Append(@, rstrip(Head(pipe[s])))]
    /\ enq' = Append(enq, [line |-> rstrip(Head(pipe[s])), stream |-> s])
    /\ UNCHANGED <<child, exitcode, nwrites, open, written>>
    /\ UNCHANGED <<spawnOk, handler, drain, lines, calls, pc, line, seen,
                   final, returncode, result, error, intVars>>
    /\ UNCHANGED <<syncVars, aggVars, editVars>>

\* stream.readline() returns '' at end-of-file: the thread ends.
DrainEOF(s) ==
    /\ status = None
    /\ drain[s] = "reading"
    /\ pipe[s] = <<>>
    /\ ~open[s]
    /\ drain' = [drain EXCEPT ![s] = "done"]
    /\ UNCHANGED <<childVars, spawnOk, handler, queue, enq, lines, calls,
                   pc, line, seen, final, returncode, result, error, intVars>>
    /\ UNCHANGED <<syncVars, aggVars, editVars>>

\* ------------------------------------------- run_with_output (control thread)
Poll(s) == IF s = "stdout" THEN "poll_stdout" ELSE "poll_stderr"

Cb(s) == IF s = "stdout" THEN "cb_stdout" ELSE "cb_stderr"

Check(s) == IF s = "stdout" THEN "check_stdout" ELSE "check_stderr"

Join(s) == IF s = "stdout" THEN "join_stdout" ELSE "join_stderr"

Flush(s) == IF s = "stdout" THEN "flush_stdout" ELSE "flush_stderr"

\* Positions inside the try block (lines 149-183).
TryPcs == {Poll(s) : s \in Streams} \cup {Cb(s) : s \in Streams}
          \cup {"check_exit"} \cup {Check(s) : s \in Streams}
          \cup {Join(s) : s \in Streams} \cup {"communicate"}
          \cup {Flush(s) : s \in Streams}

\* Positions after the polling loop was left by break.
AfterLoopPcs == {Join(s) : s \in Streams} \cup {"communicate"}
                \cup {Flush(s) : s \in Streams} \cup {"return", "returned"}

\* OnLine with every line passed under the stdout tag.
OnLine_Stdout(log, l, s) ==
    IF handler THEN Append(log, [line |-> l, stream |-> "stdout"]) ELSE log

\* on_stdout / on_stderr: on_output(line=l, stream=...) if on_output else None
OnLine(log, l, s) == IF handler THEN Append(log, [line |-> l, stream |-> s]) ELSE log

RECURSIVE OnLines(_, _, _)
\* for l in final_lines: on_stdout(l)
OnLines(log, ls, s) ==
    IF ls = <<>> THEN log ELSE OnLines(OnLine(log, Head(ls), s), Tail(ls), s)

\* subprocess.Popen(...) succeeds; both threads are created and started.
SpawnStart ==
    /\ pc = "start"
    /\ spawnOk
    /\ child' = "running"
    /\ open' = [s \in Streams |-> TRUE]
    /\ drain' = [s \in Streams |-> "reading"]
    /\ pc' = Poll("stdout")
    /\ UNCHANGED <<exitcode, nwrites, pipe, written, queue, enq>>
    /\ UNCHANGED <<spawnOk, handler, lines, calls, line, seen, final, returncode,
                   result, error, intVars>>
    /\ UNCHANGED <<syncVars, aggVars, editVars>>

\* SpawnFail with the OSError swallowed: the function goes on to its return.
SpawnFail_Swallowed ==
    /\ pc = "start"
    /\ ~spawnOk
    /\ pc' = "return"
    /\ UNCHANGED <<childVars, drainVars, spawnOk, handler, lines, calls, line,
                   seen, final, returncode, result, error, intVars>>
    /\ UNCHANGED <<syncVars, aggVars, editVars>>

\* subprocess.Popen(...) raises OSError; nothing of the with-block runs.
SpawnFail ==
    /\ pc = "start"
    /\ ~spawnOk
    /\ error' = Some("OSError")
    /\ pc' = "raised"
    /\ UNCHANGED <<childVars, drainVars, spawnOk, handler, lines, calls, line,
                   seen, final, returncode, result, intVars>>
    /\ UNCHANGED <<syncVars, aggVars, editVars>>

\* PollGet with the queue read from its newest end (a LIFO queue).
PollGet_Lifo(s) ==
    /\ pc = Poll(s)
    /\ queue[s] # <<>>
    /\ line' = Some(queue[s][Len(queue[s])])
    /\ queue' = [queue EXCEPT ![s] = SubSeq(@, 1, Len(@) - 1)]
    /\ lines' = [lines EXCEPT ![s] = Append(@, queue[s][Len(queue[s])])]
    /\ pc' = Cb(s)
    /\ UNCHANGED <<childVars, drain, enq, spawnOk, handler, calls, seen,
                   final, returncode, result, error, intVars>>
    /\ UNCHANGED <<syncVars, aggVars, editVars>>

\* poll_queue_until_empty: q.empty() is false; get_nowait(); lines.append(line)
PollGet(s) ==
    /\ pc = Poll(s)
    /\ queue[s] # <<>>
    /\ line' = Some(Head(queue[s]))
    /\ queue' = [queue EXCEPT ![s] = Tail(@)]
    /\ lines' = [lines EXCEPT ![s] = Append(@, Head(queue[s]))]
    /\ pc' = Cb(s)
    /\ UNCHANGED <<childVars, drain, enq, spawnOk, handler, calls, seen,
                   final, returncode, result, error, intVars>>
    /\ UNCHANGED <<syncVars, aggVars, editVars>>

\* poll_queue_until_empty: if cb: cb(line)
PollCb(s) ==
    /\ pc = Cb(s)
    /\ calls' = OnLine(calls, The(line), s)
    /\ line' = None
    /\ pc' = Poll(s)
    /\ UNCHANGED <<childVars, drainVars, spawnOk, handler, lines, seen, final,
                   returncode, result, error, intVars>>
    /\ UNCHANGED <<syncVars, aggVars, editVars>>

\* poll_queue_until_empty: q.empty() is true, the poll of s ends.
PollEmpty(s) ==
    /\ pc = Poll(s)
    /\ queue[s] = <<>>
    /\ pc' = IF s = "stdout" THEN Poll("stderr") ELSE "check_exit"
    /\ UNCHANGED <<childVars, drainVars, spawnOk, handler, lines, calls, line,
                   seen, final, returncode, result, error, intVars>>
    /\ UNCHANGED <<syncVars, aggVars, editVars>>

\* CheckExit with the exit test dropped: the queues are tested for the break
\* whether or not the child has ended.
CheckExit_NoTest ==
    /\ pc = "check_exit"
    /\ seen' = [seen EXCEPT !.exited = (child = "exited")]
    /\ pc' = Check("stdout")
    /\ UNCHANGED <<childVars, drainVars, spawnOk, handler, lines, calls, line,
                   final, returncode, result, error, intVars>>
    /\ UNCHANGED <<syncVars, aggVars, editVars>>

\* CheckExit reading process.returncode without poll(): the exit is never seen.
CheckExit_NoPoll ==
    /\ pc = "check_exit"
    /\ seen' = NoSeen
    /\ pc' = Poll("stdout")
    /\ UNCHANGED <<childVars, drainVars, spawnOk, handler, lines, calls, line,
                   final, returncode, result, error, intVars>>
    /\ UNCHANGED <<syncVars, aggVars, editVars>>

\* if process.poll() is not None:
CheckExit ==
    /\ pc = "check_exit"
    /\ IF child = "exited"
       THEN /\ seen' = [seen EXCEPT !.exited = TRUE]
            /\ pc' = Check("stdout")
       ELSE /\ seen' = NoSeen
            /\ pc' = Poll("stdout")
    /\ UNCHANGED <<childVars, drainVars, spawnOk, handler, lines, calls, line,
                   final, returncode, result, error, intVars>>
    /\ UNCHANGED <<syncVars, aggVars, editVars>>

\* if output_queue.empty() and error_queue.empty(): break
CheckEmpty(s) ==
    /\ pc = Check(s)
    /\ IF queue[s] = <<>>
       THEN /\ seen' = [seen EXCEPT ![s] = TRUE]
            /\ pc' = IF s = "stdout" THEN Check("stderr") ELSE Join("stdout")
       ELSE /\ seen' = NoSeen
            /\ pc' = Poll("stdout")
    /\ UNCHANGED <<childVars, drainVars, spawnOk, handler, lines, calls, line,
                   final, returncode, result, error, intVars>>
    /\ UNCHANGED <<syncVars, aggVars, editVars>>

\* JoinThread that does not wait for the thread (join(timeout=0)).
JoinThread_NoWait(s) ==
    /\ pc = Join(s)
    /\ pc' = IF s = "stdout" THEN Join("stderr") ELSE "communicate"
    /\ UNCHANGED <<childVars, drainVars, spawnOk, handler, lines, calls, line,
                   seen, final, returncode, result, error, intVars>>
    /\ UNCHANGED <<syncVars, aggVars, editVars>>

\* out_thread.join() / err_thread.join()
JoinThread(s) ==
    /\ pc = Join(s)
    /\ drain[s] = "done"
    /\ pc' = IF s = "stdout" THEN Join("stderr") ELSE "communicate"
    /\ UNCHANGED <<childVars, drainVars, spawnOk, handler, lines, calls, line,
                   seen, final, returncode, result, error, intVars>>
    /\ UNCHANGED <<syncVars, aggVars, editVars>>

\* Communicate without the assignment returncode = process.returncode.
Communicate_NoReturncode ==
    /\ pc = "communicate"
    /\ child = "exited"
    /\ \A s \in Streams : ~open[s]
    /\ final' = [s \in Streams |-> Concat(pipe[s])]
    /\ pipe' = [s \in Streams |-> <<>>]
    /\ pc' = Flush("stdout")
    /\ UNCHANGED <<child, exitcode, nwrites, open, written>>
    /\ UNCHANGED <<drainVars, spawnOk, handler, lines, calls, line, seen,
                   returncode, result, error, intVars>>
    /\ UNCHANGED <<syncVars, aggVars, editVars>>

\* (final_stdout, final_stderr) = process.communicate()
\* returncode = process.returncode
Communicate ==
    /\ pc = "communicate"
    /\ child = "exited"
    /\ \A s \in Streams : ~open[s]
    /\ final' = [s \in Streams |-> Concat(pipe[s])]
    /\ pipe' = [s \in Streams |-> <<>>]
    /\ returncode' = exitcode
    /\ pc' = Flush("stdout")
    /\ UNCHANGED <<child, exitcode, nwrites, open, written>>
    /\ UNCHANGED <<drainVars, spawnOk, handler, lines, calls, line, seen,
                   result, error, intVars>>
    /\ UNCHANGED <<syncVars, aggVars, editVars>>

\* if final_stdout: ... / if final_stderr: ...
FlushFinal(s) ==
    /\ pc = Flush(s)
    /\ IF final[s] # <<>>
       THEN /\ lines' = [lines EXCEPT ![s] = @ \o splitlines(final[s])]
            /\ calls' = OnLines(calls, splitlines(final[s]), s)
       ELSE UNCHANGED <<lines, calls>>
    /\ pc' = IF s = "stdout" THEN Flush("stderr") ELSE "return"
    /\ UNCHANGED <<childVars, drainVars, spawnOk, handler, line, seen, final,
                   returncode, result, error, intVars>>
    /\ UNCHANGED <<syncVars, aggVars, editVars>>

\* return RunResult(returncode, stdout_lines, stderr_lines)
Return ==
    /\ pc = "return"
    /\ result' = Some(RunResult(returncode, lines["stdout"], lines["stderr"]))
    /\ pc' = "returned"
    /\ UNCHANGED <<childVars, drainVars, spawnOk, handler, lines, calls, line,
                   seen, final, returncode, error, intVars>>
    /\ UNCHANGED <<syncVars, aggVars, editVars>>

\* ------------------------------------------------ except KeyboardInterrupt
\* The interrupt is raised in the control thread inside the try block.
Interrupt ==
    /\ pc \in TryPcs
    /\ ~interrupted
    /\ interrupted' = TRUE
    /\ pc' = "int_terminate"
    /\ UNCHANGED <<childVars, drainVars, spawnOk, handler, lines, calls, line,
                   seen, final, returncode, result, error, terminated, killed,
                   clock, status>>
    /\ UNCHANGED <<syncVars, aggVars, editVars>>

\* process.terminate()
Terminate ==
    /\ pc = "int_terminate"
    /\ terminated' = TRUE
    /\ pc' = "int_wait"
    /\ UNCHANGED <<childVars, drainVars, spawnOk, handler, lines, calls, line,
                   seen, final, returncode, result, error, interrupted, killed,
                   clock, status>>
    /\ UNCHANGED <<syncVars, aggVars, editVars>>

\* One more second passes in process.wait(timeout=5) with the child running.
WaitTick ==
    /\ pc = "int_wait"
    /\ child = "running"
    /\ clock < GracePeriod
    /\ clock' = clock + 1
    /\ UNCHANGED <<childVars, drainVars, spawnOk, handler, lines, calls, pc, line,
                   seen, final, returncode, result, error, interrupted,
                   terminated, killed, status>>
    /\ UNCHANGED <<syncVars, aggVars, editVars>>

\* process.wait(timeout=5) returns: the child has ended.
WaitReturn ==
    /\ pc = "int_wait"
    /\ child = "exited"
    /\ pc' = "int_exit"
    /\ UNCHANGED <<childVars, drainVars, spawnOk, handler, lines, calls, line,
                   seen, final, returncode, result, error, intVars>>
    /\ UNCHANGED <<syncVars, aggVars, editVars>>

\* WaitTimeout raised although the grace period has not passed.
WaitTimeout_Early ==
    /\ pc = "int_wait"
    /\ child = "running"
    /\ pc' = "int_kill"
    /\ UNCHANGED <<childVars, drainVars, spawnOk, handler, lines, calls, line,
                   seen, final, returncode, result, error, intVars>>
    /\ UNCHANGED <<syncVars, aggVars, editVars>>

\* process.wait(timeout=5) raises TimeoutExpired.
WaitTimeout ==
    /\ pc = "int_wait"
    /\ child = "running"
    /\ clock = GracePeriod
    /\ pc' = "int_kill"
    /\ UNCHANGED <<childVars, drainVars, spawnOk, handler, lines, calls, line,
                   seen, final, returncode, result, error, intVars>>
    /\ UNCHANGED <<syncVars, aggVars, editVars>>

\* process.kill()
Kill ==
    /\ pc = "int_kill"
    /\ killed' = TRUE
    /\ IF child = "running"
       THEN /\ child' = "exited"
            /\ exitcode' = Some(-9)
       ELSE UNCHANGED <<child, exitcode>>
    /\ pc' = "int_exit"
    /\ UNCHANGED <<nwrites, open, pipe, written>>
    /\ UNCHANGED <<drainVars, spawnOk, handler, lines, calls, line, seen, final,
                   returncode, result, error, interrupted, terminated, clock,
                   status>>
    /\ UNCHANGED <<syncVars, aggVars, editVars>>

\* SysExit left out: the except block ends and the function goes on to return.
SysExit_Missing ==
    /\ pc = "int_exit"
    /\ child = "exited"
    /\ pc' = "return"
    /\ UNCHANGED <<childVars, drainVars, spawnOk, handler, lines, calls, line,
                   seen, final, returncode, result, error, intVars>>
    /\ UNCHANGED <<syncVars, aggVars, editVars>>

\* sys.exit(1): Popen.__exit__ waits for the child, then the process exits.
SysExit ==
    /\ pc = "int_exit"
    /\ child = "exited"
    /\ status' = Some(1)
    /\ pc' = "exited"
    /\ UNCHANGED <<childVars, drainVars, spawnOk, handler, lines, calls, line,
                   seen, final, returncode, result, error, interrupted,
                   terminated, killed, clock>>
    /\ UNCHANGED <<syncVars, aggVars, editVars>>

\* ---------------------------------------------------------- specification
Child ==
    \/ \E s \in Streams : ChildWrite(s)
    \/ \E s \in Streams : ChildClose(s)
    \/ \E c \in ExitCodes \cup {-15} : ChildExit(c)

Drain(s) == DrainLine(s) \/ DrainEOF(s)

Control ==
    \/ SpawnStart
    \/ SpawnFail
    \/ \E s \in Streams : PollGet(s) \/ PollCb(s) \/ PollEmpty(s)
    \/ CheckExit
    \/ \E s \in Streams : CheckEmpty(s)
    \/ \E s \in Streams : JoinThread(s)
    \/ Communicate
    \/ \E s \in Streams : FlushFinal(s)
    \/ Return

Cancel ==
    \/ Terminate
    \/ WaitTick
    \/ WaitReturn
    \/ WaitTimeout
    \/ Kill
    \/ SysExit

Next ==
    \/ Child
    \/ \E s \in Streams : Drain(s)
    \/ Control
    \/ Interrupt
    \/ Cancel

Spec == Init /\ [][Next]_vars

\* The threads and the control thread are scheduled fairly; the child and the
\* interrupt are not forced.
FairSpec ==
    /\ Spec
    /\ \A s \in Streams : WF_vars(Drain(s))
    /\ WF_vars(Control)
    /\ WF_vars(Cancel)

\* The same program when no KeyboardInterrupt is delivered, scheduled fairly.
NextRun ==
    \/ Child
    \/ \E s \in Streams : Drain(s)
    \/ Control

LiveSpec ==
    /\ Init
    /\ [][NextRun]_vars
    /\ \A s \in Streams : WF_vars(Drain(s))
    /\ WF_vars(Control)

\* ------------------------------------------------------------------ claims
\* The lines the child wrote to s, as text without line terminators.
WrittenLines(s) == splitlines(Concat(written[s]))

\* The entries of a delivery log that belong to stream s, in order.
OfStream(log, s) == SelectSeq(log, LAMBDA e : e.stream = s)

IsPrefix(a, b) == Len(a) <= Len(b) /\ a = SubSeq(b, 1, Len(a))

\* C1: when run_with_output returns a result, its stdout list equals exactly
\* the sequence of lines the child wrote to stdout and its stderr list exactly
\* the lines written to stderr (no loss, no duplication, order preserved).
C1_ResultEqualsWritten ==
    result # None =>
        /\ The(result).stdout = WrittenLines("stdout")
        /\ The(result).stderr = WrittenLines("stderr")

\* C2: with a handler supplied, every line the child wrote to either stream
\* has been passed to the handler exactly once when run_with_output returns
\* (a line counted as passed also when its trailing whitespace was stripped).
C2_EveryLineHandledOnce ==
    (result # None /\ handler) =>
        \A s \in Streams : \A i \in 1..Len(written[s]) :
            Cardinality({k \in 1..Len(calls) :
                            /\ calls[k].stream = s
                            /\ calls[k].line = rstrip(written[s][i])}) = 1

\* C3: the control loop is left only in an iteration that observed the child
\* as exited and observed both queues empty; the child has then really ended.
C3_BreakOnlyExitedAndEmpty ==
    pc \in AfterLoopPcs =>
        /\ child = "exited"
        /\ seen.exited
        /\ seen.stdout
        /\ seen.stderr

C3_Witness == pc = Join("stdout") /\ lines["stdout"] # <<>> /\ lines["stderr"] # <<>>

\* C4: no handler invocation happens once the result is built, and at that
\* point both drain threads have ended (they were joined).
C4_NoDeliveryAfterReturn ==
    /\ [](result # None => \A s \in Streams : drain[s] = "done")
    /\ [][result # None => calls' = calls]_vars

C4_Witness == result # None /\ Len(calls) = MaxWrites

\* Position of entry e in the order of enqueueing.
EnqPos(e) == CHOOSE k \in 1..Len(enq) : enq[k] = e

\* C5 as stated: the handler receives the lines in the order in which they
\* were enqueued, over both streams.
C5_ArrivalOrder ==
    \A i, j \in 1..Len(calls) : i < j => EnqPos(calls[i]) < EnqPos(calls[j])

\* C5 amended: per stream, the lines the handler has received are a prefix of
\* the lines enqueued for that stream (order kept within a stream only).
C5_PerStreamOrder ==
    \A s \in Streams : IsPrefix(OfStream(calls, s), OfStream(enq, s))

C5_Witness ==
    /\ Len(calls) >= 2
    /\ \E s \in Streams : Len(OfStream(calls, s)) >= 2

\* C6: on an interrupt terminate() is called first, the runner waits up to
\* the grace period, and kill() is called only after the child has stayed
\* alive for the whole grace period; never before terminate().
C6_TerminateWaitKill ==
    /\ pc \in {"int_wait", "int_kill", "int_exit", "exited"} => terminated
    /\ (killed \/ pc = "int_kill") => (terminated /\ clock = GracePeriod)
    /\ (killed \/ terminated) => interrupted

C6_Witness == killed /\ status # None

\* C7: once interrupted, run_with_output never returns a RunResult; when the
\* process exits it exits with status 1, after terminate() was called and
\* with the child ended (killed if it outlived the grace period).
C7_CancelIsFatal ==
    /\ interrupted => result = None
    /\ status # None =>
          /\ status = Some(1)
          /\ interrupted
          /\ terminated
          /\ child = "exited"
          /\ (exitcode \in {Some(c) : c \in ExitCodes \cup {-15}} \/ killed)

C7_Witness == status = Some(1) /\ ~killed /\ lines["stdout"] # <<>>

\* C8: the returncode of a returned result is the child's actual exit code,
\* the result carries the captured line lists, and a child that has run is
\* never turned into a runner error, whatever its exit code.
C8_ReturncodeIsExitCode ==
    /\ result # None =>
          /\ The(result).returncode = exitcode
          /\ exitcode # None
          /\ The(result).stdout = lines["stdout"]
          /\ The(result).stderr = lines["stderr"]
    /\ child # "none" => error = None

C8_Witness ==
    /\ result # None
    /\ The(result).returncode = Some(1)
    /\ The(result).stdout # <<>>

\* C9: when the command cannot be spawned, an error is reported, no RunResult
\* is produced, no drain thread is started and the handler is never invoked.
C9_SpawnFailure ==
    ~spawnOk =>
        /\ result = None
        /\ child = "none"
        /\ \A s \in Streams : drain[s] = "unstarted"
        /\ calls = <<>>
        /\ pc \in {"start", "raised"}
        /\ pc = "raised" => error = Some("OSError")

C9_Witness == pc = "raised" /\ error # None /\ handler

\* C10: once the child has exited and both streams are at end-of-file, under
\* fair scheduling of the threads run_with_output eventually returns a result.
C10_EventuallyReturns ==
    (child = "exited" /\ \A s \in Streams : ~open[s]) ~> (result # None)

C10_Witness == result # None /\ nwrites = MaxWrites /\ Len(lines["stderr"]) = MaxWrites

\* The other stream.
Other(s) == CHOOSE o \in Streams : o # s

\* What only the control thread holds: its position, the result lists, the
\* handler's invocations and the locals of the with-block.
controlVars == <<lines, calls, pc, line, seen, final, returncode, result, error>>

\* A step of the drain thread of s: it takes one line from its pipe.
DrainStep(s) == pipe[s] # <<>> /\ pipe'[s] = Tail(pipe[s])

\* C11: thread confinement. A queue is put to only by its own drain thread,
\* in a step that leaves the other queue and everything the control thread
\* holds alone, and is taken from only by the control thread, polling that
\* queue; the result lists and the handler's invocations change only in a
\* step of the control thread, which touches neither pipe nor drain thread.
C11_ThreadConfinement ==
    [][ /\ \A s \in Streams :
              queue'[s] # queue[s] =>
                  \/ /\ DrainStep(s)
                     /\ queue'[s] = Append(queue[s], rstrip(Head(pipe[s])))
                     /\ queue'[Other(s)] = queue[Other(s)]
                     /\ UNCHANGED controlVars
                  \/ /\ pc = Poll(s) /\ pc' = Cb(s)
                     /\ queue'[s] = Tail(queue[s])
                     /\ UNCHANGED <<pipe, drain>>
        /\ (lines' # lines \/ calls' # calls) =>
              pc' # pc /\ UNCHANGED <<pipe, drain>>
        /\ Len(calls') <= Len(calls) + 1
      ]_vars

\* The control thread is inside the handler for a line of one stream while
\* the other stream's drain thread, still reading, has put a line.
C11_Witness ==
    \E s \in Streams :
        /\ pc = Cb(s) /\ handler /\ line # None
        /\ drain[Other(s)] = "reading" /\ queue[Other(s)] # <<>>

\* ======================================================= pergit/sync.py
\* Text is a sequence of symbols. A decimal digit is one symbol; each literal
\* of the code that the program only ever handles whole is one symbol too.

\* -------------------------------------------------------------- bounds
\* Longest numeral among the inputs.
MaxDigits == 2
\* Most runs of sync_command after the first.
MaxRuns == 1

\* ------------------------------------------------------ str() and int()
DigitChars == <<"0", "1", "2", "3", "4", "5", "6", "7", "8", "9">>

IsDigit(c) == \E d \in 1..10 : DigitChars[d] = c

DigitVal(c) == (CHOOSE d \in 1..10 : DigitChars[d] = c) - 1

AllDigits(t) == \A i \in 1..Len(t) : IsDigit(t[i])

RECURSIVE StrNat(_)
\* '%s' % n for n >= 0
StrNat(n) ==
    IF n < 10 THEN <<DigitChars[n + 1]>>
    ELSE StrNat(n \div 10) \o <<DigitChars[(n % 10) + 1]>>

\* '%s' % n
Str(n) == IF n < 0 THEN <<"-">> \o StrNat(0 - n) ELSE StrNat(n)

RECURSIVE IntNat(_)
\* int(t) for a text of digits
IntNat(t) ==
    IF t = <<>> THEN 0
    ELSE 10 * IntNat(SubSeq(t, 1, Len(t) - 1)) + DigitVal(t[Len(t)])

\* int(t) does not raise ValueError: an optional sign, then digits.
IsInt(t) ==
    \/ t # <<>> /\ AllDigits(t)
    \/ Len(t) > 1 /\ t[1] \in {"-", "+"} /\ AllDigits(Tail(t))

\* int(t)
ParseInt(t) ==
    IF t[1] = "-" THEN 0 - IntNat(Tail(t))
    ELSE IF t[1] = "+" THEN IntNat(Tail(t))
    ELSE IntNat(t)

\* Lower that keeps upper case.
Lower_Exact(t) == t

\* str.lower(): of the symbols in use only "HEAD" has upper-case letters.
Lower(t) == [i \in 1..Len(t) |-> IF t[i] = "HEAD" THEN "head" ELSE t[i]]

\* ---------------------------------------------------- the sync marker
\* The literal ': p4 sync //...@' of the commit message and of the pattern.
Sep == ": p4 sync //...@"

\* CommitMsg with the revision written once only.
CommitMsg_Once(n) == Str(n) \o <<Sep>>

\* commit_msg = '%s: p4 sync //...@%s' % (args.changelist, args.changelist)
CommitMsg(n) == Str(n) \o <<Sep>> \o Str(n)

\* --pretty="%s" is passed without a shell: git prints the quotes too.
Pretty(subject) == <<"\"">> \o subject \o <<"\"">>

\* (\d+): p4 sync //\.\.\.@\1 matches at i with group 1 of length k.
MatchAt(msg, i, k) ==
    /\ i + 2 * k <= Len(msg)
    /\ \A j \in 0..(k - 1) : IsDigit(msg[i + j])
    /\ msg[i + k] = Sep
    /\ \A j \in 0..(k - 1) : msg[i + k + 1 + j] = msg[i + j]

\* Start positions at which the pattern matches.
Matches(msg) == {i \in 1..Len(msg) : \E k \in 1..Len(msg) : MatchAt(msg, i, k)}

\* re.search(pattern, msg): group 1 of the leftmost match, None if no match
Search(msg) ==
    IF Matches(msg) = {} THEN None
    ELSE LET i == CHOOSE m \in Matches(msg) : \A o \in Matches(msg) : m <= o
             k == CHOOSE k \in 1..Len(msg) : MatchAt(msg, i, k)
         IN  Some(SubSeq(msg, i, i + k - 1))

\* git_changelist_of_last_commit, given the RunResult of git log: None on a
\* non-zero exit, on empty stdout and on no match; else int(match.group(1)).
ChangelistOf(rc, stdout) ==
    IF rc # 0 \/ stdout = <<>> THEN None
    ELSE IF Search(stdout[1]) = None THEN None
    ELSE Some(ParseInt(The(Search(stdout[1]))))

\* ------------------------------------------------- get_writable_files
\* The literal "Can't clobber writable file ".
Clb == "Can't clobber writable file "

RECURSIVE get_writable_files(_)
\* get_writable_files with the startswith test left out: every line counts.
get_writable_files_All(stderr_lines) ==
    IF stderr_lines = <<>> THEN <<>>
    ELSE <<rstrip(Tail(Head(stderr_lines)))>> \o get_writable_files(Tail(stderr_lines))

\* The rest of each line that starts with the prefix, rstrip()ped, in order.
get_writable_files(stderr_lines) ==
    IF stderr_lines = <<>> THEN <<>>
    ELSE IF Head(stderr_lines) # <<>> /\ Head(Head(stderr_lines)) = Clb
         THEN <<rstrip(Tail(Head(stderr_lines)))>>
                  \o get_writable_files(Tail(stderr_lines))
         ELSE get_writable_files(Tail(stderr_lines))

\* ------------------------------------------------------------ inputs
\* Sequences over S of at most n elements.
SeqsUpTo(S, n) == UNION {[1..k -> S] : k \in 0..n}

\* Digits of the numerals given as args.changelist.
ArgDigits == {"0", "1"}

Numerals == SeqsUpTo(ArgDigits, MaxDigits) \ {<<>>}

\* Values of args.changelist: numerals, the selector in both cases, a
\* negative number and a text that is no number.
Args == Numerals \cup {<<"head">>, <<"HEAD">>, <<"-", "1">>, <<"x">>}

\* Subjects of the last commit before the first run: no commit at all, a
\* commit of the user's, the marker of an earlier run, and a subject whose
\* two numbers differ.
LastMsgs ==
    {None, Some(<<"x">>), Some(<<"1", Sep, "1", "1">>),
     Some(CommitMsg(1)), Some(CommitMsg(10))}

\* stdout of 'git status --porcelain' and of 'p4 opened', as captured.
StatusOuts == {<<>>, <<<<" M f">>>>}

OpenedOuts == {<<>>, <<<<"//depot/f#1 - edit">>>>}

\* Lines on the stderr of the mutating sync, as captured (the runner has
\* rstrip()ped them): blocked paths, another error, and a line that holds
\* the clobber text but does not start with it.
StderrPool ==
    {<<>>,
     <<<<"error">>>>,
     <<<<Clb, "a">>>>,
     <<<<Clb, "b">>, <<"error">>, <<Clb, "a">>>>,
     <<<<"x", Clb, "b">>, <<Clb, "a", " ", "b">>>>}

\* Numbers of stdout lines of the dry run 'p4 sync -n'.
Counts == {0, 3}

\* ---------------------------------------------------------- messages
Blank == <<>>
FailedGitStatus == <<"Failed to run git status">>
GitNotClean == <<"git status shows that workspace is not clean, aborting">>
FailedP4Opened == <<"Failed to run p4 opened">>
P4NotClean == <<"p4 opened shows that workspace is not clean, aborting">>
NothingToDo(n) == <<"Changelist of last commit is ">> \o Str(n) \o <<", nothing to do, aborting ">>
UpToDate == <<"All files are up to date">>
Syncing(n) == <<"Syncing ">> \o Str(n) \o <<" files">>
Found(n) == <<"Found ">> \o Str(n) \o <<" writable files">>
Leaving == <<"Leaving files as is, use --force to force sync">>
FailedSync == <<"Failed to sync files from perforce">>
FailedAdd == <<"Failed to add all files to git">>
FailedCommit == <<"Failed to commit files to git">>
Finished == <<"Finished with success">>

\* ------------------------------------------------------------ helpers
\* A command as it is handed to run / run_with_output, with what its caller
\* reads of the result: the exit code, stdout (of git status, p4 opened and
\* git log), the number of stdout lines (of the dry run) and stderr (of a
\* mutating sync that failed). target is the target count of the aggregator
\* that handles the output, None for the echo handler.
Cmd(c, rc) ==
    [cmd |-> c, rc |-> rc, out |-> <<>>, count |-> None, err |-> <<>>,
     rev |-> <<>>, file |-> <<>>, target |-> None, msg |-> <<>>,
     allowEmpty |-> FALSE]

\* '%s' % changelist
RevText(c) == IF c = None THEN <<"None">> ELSE Str(The(c))

\* The kinds of line the aggregator counts.
Modes == {"add", "del", "upd", "clb"}

\* P4SyncOutputProcessor.__init__, with a SyncStats() per mode
\* (start_timestamp is kept as elapsed)
P4SyncOutputProcessor(n) ==
    [file_count_to_sync |-> n, synced_file_count |-> 0,
     stats |-> [m \in Modes |-> [count |-> 0, total_size |-> 0]]]

\* Where sync_command goes on, and with what.
Goes(a, b, c, d, e) ==
    /\ spc' = a
    /\ site' = b
    /\ cl' = c
    /\ ret' = d
    /\ printed' = e

\* P4SyncReturns with the result of p4_sync not looked at.
P4SyncReturns_Unchecked(ok, out) ==
    IF site = "head" THEN Goes("done", site, cl, Some(0), printed \o out)
    ELSE IF site = "last"
         THEN Goes("dry", "target", Some(ParseInt(argv)), ret,
                   printed \o out \o <<Blank>>)
         ELSE Goes("status2", site, cl, ret, printed \o out \o <<Blank>>)

\* p4_sync returns ok, having printed out: what its caller does next.
P4SyncReturns(ok, out) ==
    IF ~ok
    THEN Goes("done", site, cl, Some(1), printed \o out \o <<FailedSync>>)
    ELSE IF site = "head" THEN Goes("done", site, cl, Some(0), printed \o out)
    ELSE IF site = "last"
         THEN Goes("dry", "target", Some(ParseInt(argv)), ret,
                   printed \o out \o <<Blank>>)
         ELSE Goes("status2", site, cl, ret, printed \o out \o <<Blank>>)

\* The runner between two calls.
RunnerIdle ==
    /\ spawnOk = TRUE
    /\ handler = TRUE
    /\ child = "none"
    /\ exitcode = None
    /\ nwrites = 0
    /\ open = [s \in Streams |-> FALSE]
    /\ pipe = [s \in Streams |-> <<>>]
    /\ written = [s \in Streams |-> <<>>]
    /\ drain = [s \in Streams |-> "unstarted"]
    /\ queue = [s \in Streams |-> <<>>]
    /\ enq = <<>>
    /\ lines = [s \in Streams |-> <<>>]
    /\ calls = <<>>
    /\ pc = "start"
    /\ line = None
    /\ seen = NoSeen
    /\ final = [s \in Streams |-> <<>>]
    /\ returncode = None
    /\ result = None
    /\ error = None
    /\ interrupted = FALSE
    /\ terminated = FALSE
    /\ killed = FALSE
    /\ clock = 0
    /\ status = None

\* sync_command is called with args.changelist and args.force; each run of a
\* child process is taken at the RunResult the runner returns for it.
SyncInit ==
    /\ RunnerIdle
    /\ AggIdle
    /\ EditIdle
    /\ argv \in Args
    /\ force \in BOOLEAN
    /\ lastMsg \in LastMsgs
    /\ spc = "status"
    /\ site = "none"
    /\ cl = None
    /\ lastCl = None
    /\ fileCount = 0
    /\ proc = None
    /\ writable = <<>>
    /\ idx = 0
    /\ cmds = <<>>
    /\ printed = <<>>
    /\ ret = None
    /\ runs = <<>>

\* ------------------------------------------------------- sync_command
\* GitStatusPre with the listed changes ignored: only the exit code counts.
GitStatusPre_Ignore ==
    /\ spc = "status"
    /\ \E rc \in ExitCodes, out \in StatusOuts :
          /\ cmds' = Append(cmds, [Cmd("git status --porcelain", rc)
                                     EXCEPT !.out = out])
          /\ IF rc = 0
             THEN Goes("opened", site, cl, ret, printed \o <<Blank>>)
             ELSE Goes("done", site, cl, Some(1),
                       printed \o (IF rc # 0 THEN <<FailedGitStatus>> ELSE <<>>)
                               \o <<GitNotClean>>)
    /\ UNCHANGED <<argv, force, lastMsg, lastCl, fileCount, proc, writable, idx, runs>>
    /\ UNCHANGED <<runnerVars, aggVars, editVars>>

\* git_is_workspace_clean, the preflight call: clean is a zero exit with no
\* line on stdout; anything else returns 1.
GitStatusPre ==
    /\ spc = "status"
    /\ \E rc \in ExitCodes, out \in StatusOuts :
          /\ cmds' = Append(cmds, [Cmd("git status --porcelain", rc)
                                     EXCEPT !.out = out])
          /\ IF rc = 0 /\ out = <<>>
             THEN Goes("opened", site, cl, ret, printed \o <<Blank>>)
             ELSE Goes("done", site, cl, Some(1),
                       printed \o (IF rc # 0 THEN <<FailedGitStatus>> ELSE <<>>)
                               \o <<GitNotClean>>)
    /\ UNCHANGED <<argv, force, lastMsg, lastCl, fileCount, proc, writable, idx, runs>>
    /\ UNCHANGED <<runnerVars, aggVars, editVars>>

\* p4_is_workspace_clean: clean is a zero exit with no line on stdout;
\* anything else returns 1.
P4Opened ==
    /\ spc = "opened"
    /\ \E rc \in ExitCodes, out \in OpenedOuts :
          /\ cmds' = Append(cmds, [Cmd("p4 opened", rc) EXCEPT !.out = out])
          /\ IF rc = 0 /\ out = <<>>
             THEN Goes("log", site, cl, ret, printed \o <<Blank>>)
             ELSE Goes("done", site, cl, Some(1),
                       printed \o (IF rc # 0 THEN <<FailedP4Opened>> ELSE <<>>)
                               \o <<P4NotClean>>)
    /\ UNCHANGED <<argv, force, lastMsg, lastCl, fileCount, proc, writable, idx, runs>>
    /\ UNCHANGED <<runnerVars, aggVars, editVars>>

\* AfterLog that never syncs to last_changelist first.
AfterLog_TargetOnly(last) ==
    IF Lower(argv) = <<"head">>
    THEN Goes("dry", "head", last, ret, printed)
    ELSE IF ~IsInt(argv)
         THEN Goes("raised", site, cl, ret, printed)
    ELSE IF last = Some(ParseInt(argv))
         THEN Goes("done", site, cl, Some(0),
                   printed \o <<NothingToDo(The(last))>>)
         ELSE Goes("dry", "target", Some(ParseInt(argv)), ret,
                   printed \o <<Blank>>)

\* The choice of what to sync, last_changelist being last: with 'head'
\* p4_sync(last_changelist); else int(args.changelist), which may raise
\* ValueError; nothing to do if it equals last_changelist; else
\* p4_sync(last_changelist) if that is known, else p4_sync(args.changelist).
AfterLog(last) ==
    IF Lower(argv) = <<"head">>
    THEN Goes("dry", "head", last, ret, printed)
    ELSE IF ~IsInt(argv)
         THEN Goes("raised", site, cl, ret, printed)
    ELSE IF last = Some(ParseInt(argv))
         THEN Goes("done", site, cl, Some(0),
                   printed \o <<NothingToDo(The(last))>>)
    ELSE IF last # None
         THEN Goes("dry", "last", last, ret, printed \o <<Blank>>)
         ELSE Goes("dry", "target", Some(ParseInt(argv)), ret,
                   printed \o <<Blank>>)

\* GitLog without the comparison of last_changelist with the target.
GitLog_NoCompare ==
    /\ spc = "log"
    /\ \E rc \in ExitCodes :
          LET stdout == IF lastMsg = None THEN <<>>
                        ELSE <<rstrip(Pretty(The(lastMsg)))>>
              last == ChangelistOf(rc, stdout)
          IN  /\ cmds' = Append(cmds, [Cmd("git log --oneline -1 --pretty=\"%s\"", rc)
                                         EXCEPT !.out = stdout])
              /\ lastCl' = last
              /\ IF Lower(argv) = <<"head">>
                 THEN Goes("dry", "head", last, ret, printed)
                 ELSE IF ~IsInt(argv)
                      THEN Goes("raised", site, cl, ret, printed)
                 ELSE IF last # None
                      THEN Goes("dry", "last", last, ret, printed \o <<Blank>>)
                      ELSE Goes("dry", "target", Some(ParseInt(argv)), ret,
                                printed \o <<Blank>>)
    /\ UNCHANGED <<argv, force, lastMsg, fileCount, proc, writable, idx, runs>>
    /\ UNCHANGED <<runnerVars, aggVars, editVars>>

\* git_changelist_of_last_commit, then the choice of what to sync.
GitLog ==
    /\ spc = "log"
    /\ \E rc \in ExitCodes :
          LET stdout == IF lastMsg = None THEN <<>>
                        ELSE <<rstrip(Pretty(The(lastMsg)))>>
              last == ChangelistOf(rc, stdout)
          IN  /\ cmds' = Append(cmds, [Cmd("git log --oneline -1 --pretty=\"%s\"", rc)
                                         EXCEPT !.out = stdout])
              /\ lastCl' = last
              /\ AfterLog(last)
    /\ UNCHANGED <<argv, force, lastMsg, fileCount, proc, writable, idx, runs>>
    /\ UNCHANGED <<runnerVars, aggVars, editVars>>

\* ------------------------------------------------------------ p4_sync
\* P4DryCount with a count of 0 going on to the mutating sync.
P4DryCount_ZeroSyncs ==
    /\ spc = "dry"
    /\ \E rc \in ExitCodes, n \in Counts :
          LET count == IF rc # 0 THEN -1 ELSE n
          IN  /\ cmds' = Append(cmds, [Cmd("p4 sync -n", rc)
                                         EXCEPT !.rev = RevText(cl),
                                                !.count = Some(count)])
              /\ fileCount' = count
              /\ IF count < 0
                 THEN P4SyncReturns(FALSE, <<>>)
                 ELSE Goes("sync", site, cl, ret, printed \o <<Syncing(count)>>)
    /\ UNCHANGED <<argv, force, lastMsg, lastCl, proc, writable, idx, runs>>
    /\ UNCHANGED <<runnerVars, aggVars, editVars>>

\* get_file_count_to_sync and the tests on its result: -1 on a non-zero
\* exit, else the number of stdout lines; negative fails, 0 succeeds.
P4DryCount ==
    /\ spc = "dry"
    /\ \E rc \in ExitCodes, n \in Counts :
          LET count == IF rc # 0 THEN -1 ELSE n
          IN  /\ cmds' = Append(cmds, [Cmd("p4 sync -n", rc)
                                         EXCEPT !.rev = RevText(cl),
                                                !.count = Some(count)])
              /\ fileCount' = count
              /\ IF count < 0
                 THEN P4SyncReturns(FALSE, <<>>)
                 ELSE IF count = 0
                      THEN P4SyncReturns(TRUE, <<UpToDate>>)
                 ELSE Goes("sync", site, cl, ret, printed \o <<Syncing(count)>>)
    /\ UNCHANGED <<argv, force, lastMsg, lastCl, proc, writable, idx, runs>>
    /\ UNCHANGED <<runnerVars, aggVars, editVars>>

\* The mutating sync with a fresh aggregator for file_count_to_sync. A zero
\* exit succeeds; else the writable files are taken from stderr and, with
\* force, the loop over them starts (and succeeds at once if there is none),
\* without force they are listed and p4_sync fails.
P4SyncRun ==
    /\ spc = "sync"
    /\ proc' = Some(P4SyncOutputProcessor(fileCount))
    /\ \E rc \in ExitCodes, stderr \in StderrPool :
          LET files == get_writable_files(stderr)
          IN  /\ cmds' = Append(cmds, [Cmd("p4 sync", rc)
                                         EXCEPT !.rev = RevText(cl),
                                                !.target = Some(fileCount),
                                                !.err = IF rc = 0 THEN <<>>
                                                        ELSE stderr])
              /\ IF rc = 0
                 THEN /\ writable' = writable
                      /\ idx' = idx
                      /\ P4SyncReturns(TRUE, <<>>)
                 ELSE /\ writable' = files
                      /\ IF force
                         THEN IF files = <<>>
                              THEN /\ idx' = idx
                                   /\ P4SyncReturns(TRUE, <<Found(0)>>)
                              ELSE /\ idx' = 1
                                   /\ Goes("force", site, cl, ret,
                                           printed \o <<Found(Len(files))>>)
                         ELSE /\ idx' = idx
                              /\ P4SyncReturns(FALSE,
                                               <<Found(Len(files)), Leaving>>
                                                   \o files)
    /\ UNCHANGED <<argv, force, lastMsg, lastCl, fileCount, runs>>
    /\ UNCHANGED <<runnerVars, aggVars, editVars>>

\* P4ForceSync going on to the next file after a failed retry.
P4ForceSync_KeepGoing ==
    /\ spc = "force"
    /\ proc' = Some(P4SyncOutputProcessor(-1))
    /\ \E rc \in ExitCodes :
          /\ cmds' = Append(cmds, [Cmd("p4 sync -f", rc)
                                     EXCEPT !.rev = RevText(cl),
                                            !.file = writable[idx],
                                            !.target = Some(-1)])
          /\ IF idx = Len(writable)
             THEN idx' = idx /\ P4SyncReturns(rc = 0, <<>>)
             ELSE idx' = idx + 1 /\ Goes("force", site, cl, ret, printed)
    /\ UNCHANGED <<argv, force, lastMsg, lastCl, fileCount, writable, runs>>
    /\ UNCHANGED <<runnerVars, aggVars, editVars>>

\* p4_force_sync_file for the next writable file, with a fresh aggregator
\* of target -1: a non-zero exit fails p4_sync, the last file ends the loop.
P4ForceSync ==
    /\ spc = "force"
    /\ proc' = Some(P4SyncOutputProcessor(-1))
    /\ \E rc \in ExitCodes :
          /\ cmds' = Append(cmds, [Cmd("p4 sync -f", rc)
                                     EXCEPT !.rev = RevText(cl),
                                            !.file = writable[idx],
                                            !.target = Some(-1)])
          /\ IF rc # 0
             THEN idx' = idx /\ P4SyncReturns(FALSE, <<>>)
             ELSE IF idx = Len(writable)
                  THEN idx' = idx /\ P4SyncReturns(rc = 0, <<>>)
                  ELSE idx' = idx + 1 /\ Goes("force", site, cl, ret, printed)
    /\ UNCHANGED <<argv, force, lastMsg, lastCl, fileCount, writable, runs>>
    /\ UNCHANGED <<runnerVars, aggVars, editVars>>

\* ------------------------------------------- sync_command, after the sync
\* git_is_workspace_clean, the second call: git add follows if not clean.
GitStatusPost ==
    /\ spc = "status2"
    /\ \E rc \in ExitCodes, out \in StatusOuts :
          /\ cmds' = Append(cmds, [Cmd("git status --porcelain", rc)
                                     EXCEPT !.out = out])
          /\ IF rc = 0 /\ out = <<>>
             THEN Goes("commit", site, cl, ret, printed)
             ELSE Goes("add", site, cl, ret,
                       printed \o (IF rc # 0 THEN <<FailedGitStatus>> ELSE <<>>))
    /\ UNCHANGED <<argv, force, lastMsg, lastCl, fileCount, proc, writable, idx, runs>>
    /\ UNCHANGED <<runnerVars, aggVars, editVars>>

\* git_add_all_files: a non-zero exit returns 1.
GitAdd ==
    /\ spc = "add"
    /\ \E rc \in ExitCodes :
          /\ cmds' = Append(cmds, Cmd("git add .", rc))
          /\ IF rc = 0
             THEN Goes("commit", site, cl, ret, printed \o <<Blank>>)
             ELSE Goes("done", site, cl, Some(1), printed \o <<FailedAdd>>)
    /\ UNCHANGED <<argv, force, lastMsg, lastCl, fileCount, proc, writable, idx, runs>>
    /\ UNCHANGED <<runnerVars, aggVars, editVars>>

\* GitCommit without --allow-empty.
GitCommit_NoEmpty ==
    /\ spc = "commit"
    /\ \E rc \in ExitCodes :
          /\ cmds' = Append(cmds, [Cmd("git commit", rc)
                                     EXCEPT !.msg = CommitMsg(ParseInt(argv)),
                                            !.allowEmpty = FALSE])
          /\ IF rc = 0
             THEN /\ lastMsg' = Some(CommitMsg(ParseInt(argv)))
                  /\ Goes("done", site, cl, Some(0),
                          printed \o <<Blank, Finished>>)
             ELSE /\ lastMsg' = lastMsg
                  /\ Goes("done", site, cl, Some(1), printed \o <<FailedCommit>>)
    /\ UNCHANGED <<argv, force, lastCl, fileCount, proc, writable, idx, runs>>
    /\ UNCHANGED <<runnerVars, aggVars, editVars>>

\* git_commit(commit_msg, allow_empty=True): on a zero exit the commit is
\* the last one of the history and sync_command returns 0, else 1.
GitCommit ==
    /\ spc = "commit"
    /\ \E rc \in ExitCodes :
          /\ cmds' = Append(cmds, [Cmd("git commit", rc)
                                     EXCEPT !.msg = CommitMsg(ParseInt(argv)),
                                            !.allowEmpty = TRUE])
          /\ IF rc = 0
             THEN /\ lastMsg' = Some(CommitMsg(ParseInt(argv)))
                  /\ Goes("done", site, cl, Some(0),
                          printed \o <<Blank, Finished>>)
             ELSE /\ lastMsg' = lastMsg
                  /\ Goes("done", site, cl, Some(1), printed \o <<FailedCommit>>)
    /\ UNCHANGED <<argv, force, lastCl, fileCount, proc, writable, idx, runs>>
    /\ UNCHANGED <<runnerVars, aggVars, editVars>>

\* Positions at which sync_command runs a child process.
CallSites == {"status", "opened", "log", "dry", "sync", "force", "status2",
              "add", "commit"}

\* The call raises instead of returning a result: OSError from Popen or
\* subprocess.run, or SystemExit(1) after KeyboardInterrupt. Nothing in
\* sync_command catches it.
CallRaises ==
    /\ spc \in CallSites
    /\ spc' = "raised"
    /\ UNCHANGED <<argv, force, lastMsg, site, cl, lastCl, fileCount, proc,
                   writable, idx, cmds, printed, ret, runs>>
    /\ UNCHANGED <<runnerVars, aggVars, editVars>>

\* The program is run again with the same arguments, on the history the
\* last run left.
Rerun ==
    /\ spc \in {"done", "raised"}
    /\ Len(runs) < MaxRuns
    /\ runs' = Append(runs, [committed |-> /\ ret = Some(0)
                                           /\ cmds[Len(cmds)].cmd = "git commit"])
    /\ spc' = "status"
    /\ site' = "none"
    /\ cl' = None
    /\ lastCl' = None
    /\ fileCount' = 0
    /\ proc' = None
    /\ writable' = <<>>
    /\ idx' = 0
    /\ cmds' = <<>>
    /\ printed' = <<>>
    /\ ret' = None
    /\ UNCHANGED <<argv, force, lastMsg>>
    /\ UNCHANGED <<runnerVars, aggVars, editVars>>

SyncNext ==
    \/ GitStatusPre
    \/ P4Opened
    \/ GitLog
    \/ P4DryCount
    \/ P4SyncRun
    \/ P4ForceSync
    \/ GitStatusPost
    \/ GitAdd
    \/ GitCommit
    \/ CallRaises
    \/ Rerun

SyncSpec == SyncInit /\ [][SyncNext]_vars

\* ------------------------------------------------ claims on sync_command
\* The i-th command of this run was invoked and is c.
Is(i, c) == i \in 1..Len(cmds) /\ cmds[i].cmd = c

\* The i-th command of this run is the last one so far.
IsLast(i) == i = Len(cmds)

\* A workspace check whose result is not clean: it failed or listed changes.
NotClean(c) == c.rc # 0 \/ c.out # <<>>

\* The p4 sync variants, git add and git commit.
AfterPreflight == {"p4 sync -n", "p4 sync", "p4 sync -f", "git add .", "git commit"}

\* C12: the preflight is fail-fast. Once git status (the first command) or
\* p4 opened (the second) has failed or listed changes, sync_command has
\* returned 1 and no p4 sync variant, git add or git commit was invoked.
C12_PreflightFailFast ==
    \A i \in 1..2 :
        /\ Is(1, "git status --porcelain") \/ cmds = <<>>
        /\ Is(2, "p4 opened") \/ Len(cmds) < 2
        /\ (i <= Len(cmds) /\ NotClean(cmds[i])) =>
              /\ IsLast(i)
              /\ spc = "done" /\ ret = Some(1)
              /\ \A j \in 1..Len(cmds) : cmds[j].cmd \notin AfterPreflight

\* p4 opened exited with 0 and listed an opened file, after a clean git status.
C12_Witness ==
    /\ Is(2, "p4 opened") /\ cmds[2].rc = 0 /\ cmds[2].out # <<>>
    /\ ~NotClean(cmds[1])
    /\ ret = Some(1)

\* C13: a dry count that failed (-1) is the last command of the run, which
\* returns 1; after a dry count of 0 p4_sync has reported that all files are
\* up to date and has succeeded, and the next command, if any, is not the
\* mutating sync but what follows p4_sync in sync_command.
C13_DryCountShortCircuits ==
    \A i \in 1..Len(cmds) :
        Is(i, "p4 sync -n") =>
            /\ cmds[i].count = Some(-1) <=> cmds[i].rc # 0
            /\ cmds[i].count = Some(-1) =>
                  IsLast(i) /\ spc = "done" /\ ret = Some(1)
            /\ cmds[i].count = Some(0) =>
                  /\ \E k \in 1..Len(printed) : printed[k] = UpToDate
                  /\ IsLast(i) => ret # Some(1)
                  /\ ~IsLast(i) =>
                        cmds[i + 1].cmd \in {"p4 sync -n", "git status --porcelain"}

\* The dry count for the target was 0 and the run has gone through to an
\* empty commit without any mutating sync.
C13_Witness ==
    /\ ret = Some(0)
    /\ Is(Len(cmds), "git commit")
    /\ \E i \in 1..Len(cmds) : Is(i, "p4 sync -n") /\ cmds[i].count = Some(0)
    /\ \A i \in 1..Len(cmds) : cmds[i].cmd # "p4 sync"

\* Positions of the stderr lines that start with "Can't clobber writable file ".
ClobberAt(err) == {j \in 1..Len(err) : err[j] # <<>> /\ err[j][1] = Clb}

\* The j-th smallest element of the set S of numbers.
Nth(S, j) == CHOOSE x \in S : Cardinality({y \in S : y <= x}) = j

\* The clobber-blocked paths of err in stderr order: what follows the prefix
\* on each such line, without trailing whitespace.
BlockedPaths(err) ==
    [j \in 1..Cardinality(ClobberAt(err)) |->
        LET l == err[Nth(ClobberAt(err), j)]
            e == CHOOSE e \in 1..Len(l) :
                     /\ e = 1 \/ l[e] \notin Whitespace
                     /\ \A k \in (e + 1)..Len(l) : l[k] \in Whitespace
        IN  SubSeq(l, 2, e)]

\* The i-th command is a mutating sync that exited non-zero.
SyncFailedAt(i) == Is(i, "p4 sync") /\ cmds[i].rc # 0

\* C14: without force, a mutating sync that exits non-zero is the last
\* command of the run (no retry: 'p4 sync -f' is never invoked), p4_sync
\* fails (the run returns 1), and what is listed between the note that the
\* files are left as they are and the failure message is exactly the
\* clobber-blocked paths of the captured stderr, in stderr order.
C14_NoForceListsAndAborts ==
    \A i \in 1..Len(cmds) :
        (SyncFailedAt(i) /\ ~force) =>
            LET paths == BlockedPaths(cmds[i].err)
                n == Len(printed)
                k == Len(paths)
            IN  /\ IsLast(i)
                /\ spc = "done" /\ ret = Some(1)
                /\ \A j \in 1..Len(cmds) : cmds[j].cmd # "p4 sync -f"
                /\ n >= k + 3
                /\ printed[n] = FailedSync
                /\ SubSeq(printed, n - k, n - 1) = paths
                /\ printed[n - k - 1] = Leaving
                /\ printed[n - k - 2] = Found(k)

\* A dry count of 3, then the mutating sync exits with 1 and two
\* clobber-blocked lines (and another error between them), force not given.
C14_Witness ==
    /\ ~force
    /\ fileCount = 3
    /\ SyncFailedAt(Len(cmds))
    /\ Len(BlockedPaths(cmds[Len(cmds)].err)) = 2
    /\ Len(cmds[Len(cmds)].err) = 3
    /\ ret = Some(1)

\* C15: with force, after a mutating sync that exited non-zero the next
\* commands are 'p4 sync -f', one per clobber-blocked path of the captured
\* stderr and in that order, at the revision of the sync and each with a
\* fresh aggregator of target -1; a retry that exits non-zero is the last
\* command of the run, which returns 1; as long as none has failed the loop
\* goes on, and after the last path no further retry follows.
C15_ForceRetriesEachOnce ==
    \A i \in 1..Len(cmds) :
        (SyncFailedAt(i) /\ force) =>
            LET paths == BlockedPaths(cmds[i].err)
            IN  /\ \A j \in 1..Len(paths) :
                      i + j <= Len(cmds) =>
                          /\ cmds[i + j].cmd = "p4 sync -f"
                          /\ cmds[i + j].file = paths[j]
                          /\ cmds[i + j].rev = cmds[i].rev
                          /\ cmds[i + j].target = Some(-1)
                          /\ cmds[i + j].rc # 0 =>
                                IsLast(i + j) /\ spc = "done" /\ ret = Some(1)
                          /\ IsLast(i + j) => proc = Some(P4SyncOutputProcessor(-1))
                /\ (Len(cmds) < i + Len(paths) /\ cmds[Len(cmds)].rc = 0 /\ i < Len(cmds))
                      => spc \in {"force", "raised"}
                /\ (IsLast(i) /\ paths # <<>>) => spc \in {"force", "raised"}
                /\ i + Len(paths) < Len(cmds) =>
                      cmds[i + Len(paths) + 1].cmd # "p4 sync -f"

\* With force, the sync was blocked on b and then on a; b was forced with
\* success, then the retry of a exited non-zero.
C15_Witness ==
    /\ force
    /\ \E i \in 1..Len(cmds) :
          /\ SyncFailedAt(i)
          /\ BlockedPaths(cmds[i].err) = <<<<"b">>, <<"a">>>>
          /\ IsLast(i + 2)
          /\ cmds[i + 1].rc = 0
          /\ cmds[i + 2].rc # 0
    /\ ret = Some(1)

\* C16: a mutating sync that exits non-zero with no clobber-blocked line on
\* its stderr is the last command of the run, which returns 1 (so no commit
\* is made), whatever the force flag.
C16_NoCauseIsFatal ==
    \A i \in 1..Len(cmds) :
        (SyncFailedAt(i) /\ BlockedPaths(cmds[i].err) = <<>>) =>
            /\ IsLast(i)
            /\ spc = "done" /\ ret = Some(1)

\* git log has run, and the target is a number.
LogRanForNumber == Len(cmds) >= 3 /\ IsInt(argv)

\* C17: when the target is a number and the revision recovered from the last
\* commit message equals it (as it does when git log exits with 0 and the
\* last commit is the marker of that revision), git log is the last command
\* of the run: no p4 sync variant is invoked, nothing is committed (the last
\* commit is still the one git log has shown), and sync_command returns 0
\* saying that there is nothing to do.
C17_SameTargetIsNoOp ==
    (/\ LogRanForNumber
     /\ \/ lastCl = Some(ParseInt(argv))
        \/ /\ cmds[3].rc = 0
           /\ ParseInt(argv) >= 0
           /\ cmds[3].out = <<Pretty(CommitMsg(ParseInt(argv)))>>)
    => /\ Len(cmds) = 3
       /\ spc = "done" /\ ret = Some(0)
       /\ printed[Len(printed)] = NothingToDo(ParseInt(argv))
       /\ cmds[3].out = <<rstrip(Pretty(The(lastMsg)))>>

\* The second run for a target which the first run has synced and committed:
\* it ends after git log with 0.
C17_Witness ==
    /\ runs # <<>> /\ runs[1].committed
    /\ Len(cmds) = 3 /\ cmds[3].rc = 0
    /\ spc = "done" /\ ret = Some(0)

\* The i-th command is the sync_command's second git status.
PostStatusAt(i) == i > 1 /\ Is(i, "git status --porcelain")

\* The i-th command is for the target revision and ends a p4_sync with success.
TargetSyncedAt(i) ==
    /\ i > 3 /\ i <= Len(cmds)
    /\ \/ cmds[i].cmd = "p4 sync -n" /\ cmds[i].count = Some(0)
       \/ cmds[i].cmd = "p4 sync" /\ cmds[i].rc = 0
       \/ /\ cmds[i].cmd = "p4 sync -f" /\ cmds[i].rc = 0
          /\ \E s \in 1..(i - 1) :
                SyncFailedAt(s) /\ i = s + Len(BlockedPaths(cmds[s].err))
    /\ IsInt(argv)
    /\ cmds[i].rev = Str(ParseInt(argv))

\* C18: once the sync to a numeric target N has succeeded, sync_command
\* checks git status, runs git add if and only if that check is not clean,
\* then runs git commit once with the message 'N: p4 sync //...@N' and
\* --allow-empty, and returns 0 when the commit has succeeded; it returns 0
\* after commands beyond git log in no other way.
C18_SuccessCommitsOnce ==
    /\ \A i \in 1..Len(cmds) :
          /\ TargetSyncedAt(i) =>
                IF IsLast(i) THEN spc \in {"status2", "raised"}
                ELSE PostStatusAt(i + 1)
          /\ (PostStatusAt(i) /\ IsLast(i)) =>
                spc \in {IF NotClean(cmds[i]) THEN "add" ELSE "commit", "raised"}
          /\ (PostStatusAt(i) /\ ~IsLast(i)) =>
                cmds[i + 1].cmd = IF NotClean(cmds[i]) THEN "git add ." ELSE "git commit"
          /\ (Is(i, "git add .") /\ cmds[i].rc = 0 /\ IsLast(i)) =>
                spc \in {"commit", "raised"}
          /\ (Is(i, "git add .") /\ ~IsLast(i)) =>
                cmds[i].rc = 0 /\ cmds[i + 1].cmd = "git commit"
          /\ Is(i, "git commit") =>
                /\ IsLast(i)
                /\ cmds[i].msg = Str(ParseInt(argv)) \o <<": p4 sync //...@">>
                                     \o Str(ParseInt(argv))
                /\ cmds[i].allowEmpty
                /\ spc = "done"
                /\ ret = IF cmds[i].rc = 0 THEN Some(0) ELSE Some(1)
                /\ cmds[i].rc = 0 => lastMsg = Some(cmds[i].msg)
    /\ (ret = Some(0) /\ LogRanForNumber /\ Len(cmds) > 3) =>
          Is(Len(cmds), "git commit")

\* A mutating sync of 3 files to the target succeeded, git status listed
\* changes, they were staged and committed, and sync_command returned 0.
C18_Witness ==
    LET n == Len(cmds)
    IN  /\ n >= 7
        /\ Is(n, "git commit") /\ ret = Some(0)
        /\ Is(n - 1, "git add .")
        /\ PostStatusAt(n - 2) /\ cmds[n - 2].out # <<>>
        /\ Is(n - 3, "p4 sync") /\ cmds[n - 3].target = Some(3)

\* Revision numbers for which the marker is written and read back.
Revs == 0..(10 ^ MaxDigits)

\* The marker of every revision number reads back as that number.
RoundTrip ==
    \A n \in Revs : ChangelistOf(0, <<rstrip(Pretty(CommitMsg(n)))>>) = Some(n)

\* C19: the message written for a revision number N reads back as N: for
\* every N of Revs as a function, and in every run that follows a run which
\* committed for N, once git log has exited with 0.
C19_MarkerRoundTrip ==
    /\ RoundTrip
    /\ (/\ LogRanForNumber /\ ParseInt(argv) >= 0
        /\ cmds[3].rc = 0
        /\ runs # <<>> /\ runs[Len(runs)].committed)
       => lastCl = Some(ParseInt(argv))

\* The first run, for '01', found no marker and committed '1: ...@1'; the
\* second run has read back 1.
C19_Witness ==
    /\ argv = <<"0", "1">>
    /\ runs # <<>> /\ runs[1].committed
    /\ Is(3, "git log --oneline -1 --pretty=\"%s\"")
    /\ lastCl = Some(1)
    /\ lastMsg = Some(<<"1", Sep, "1">>)

\* C20: a last commit message made of two numbers around ': p4 sync //...@'
\* that differ is no marker: git_changelist_of_last_commit gives None.
C20_OnlyIdenticalNumbers ==
    (Len(cmds) >= 3 /\ cmds[3].rc = 0 /\ cmds[3].out # <<>>) =>
        LET m == cmds[3].out[1]
        IN  \A k \in 3..(Len(m) - 2) :
                LET a == SubSeq(m, 2, k - 1)
                    b == SubSeq(m, k + 1, Len(m) - 1)
                IN  (/\ m[1] = "\"" /\ m[Len(m)] = "\""
                     /\ m[k] = Sep
                     /\ AllDigits(a) /\ AllDigits(b)
                     /\ ParseInt(a) # ParseInt(b))
                    => lastCl = None

\* The messages sync_command prints right before it returns 1.
Reasons == {GitNotClean, P4NotClean, FailedSync, FailedAdd, FailedCommit}

\* C21: sync_command returns 0 or 1; when it returns 1 the last thing it
\* printed is the reason and the last command failed or was not clean; when
\* it returns 0 the run had no failure: no dry run, forced retry, git add or
\* git commit has exited non-zero, and a mutating sync only where force is
\* given and the clobber-blocked paths of its stderr were retried.
C21_ExitCodeAndReason ==
    /\ ret \in {None, Some(0), Some(1)}
    /\ ret = Some(1) =>
          /\ printed # <<>> /\ printed[Len(printed)] \in Reasons
          /\ cmds[Len(cmds)].rc # 0 \/ cmds[Len(cmds)].out # <<>>
    /\ ret = Some(0) =>
          \A i \in 1..Len(cmds) :
              /\ cmds[i].cmd \in (AfterPreflight \ {"p4 sync"}) => cmds[i].rc = 0
              /\ SyncFailedAt(i) => force /\ BlockedPaths(cmds[i].err) # <<>>

\* =========================================== the aggregator (pergit/sync.py)
\* ------------------------------------------------- parse_p4_sync_line
\* patterns, in the order they are tried; each marker is one symbol of a
\* line
Patterns ==
    <<[mode |-> "add", pattern |-> " - added as "],
      [mode |-> "del", pattern |-> " - deleted as "],
      [mode |-> "upd", pattern |-> " - updating "],
      [mode |-> "clb", pattern |-> Clb]>>

\* Positions of the symbol m in the line.
Occurs(l, m) == {i \in 1..Len(l) : l[i] = m}

\* The least element of a non-empty set of numbers.
Min(S) == CHOOSE x \in S : \A y \in S : x <= y

\* line.split(pattern) has two tokens exactly when the pattern occurs once;
\* the first pattern in order for which that holds gives the mode, and
\* tokens[1], the text after it, is the file name. (None, None) otherwise.
parse_p4_sync_line(l) ==
    LET hits == {k \in 1..Len(Patterns) :
                    Cardinality(Occurs(l, Patterns[k].pattern)) = 1}
    IN  IF hits = {} THEN [mode |-> None, filename |-> None]
        ELSE LET k == Min(hits)
                 i == Min(Occurs(l, Patterns[k].pattern))
             IN  [mode |-> Some(Patterns[k].mode),
                  filename |-> Some(SubSeq(l, i + 1, Len(l)))]

\* re.search(r"//...@\d+ - file\(s\) up-to-date\.", line) finds a match;
\* the two literals of the pattern are one symbol each.
IsUpToDate(l) ==
    \E i \in 1..Len(l), j \in 1..Len(l) :
        /\ i + 1 < j
        /\ l[i] = "//...@"
        /\ l[j] = " - file(s) up-to-date."
        /\ \A k \in (i + 1)..(j - 1) : IsDigit(l[k])

\* ------------------------------------------------- readable_file_size
\* unit names of the loop
Units == <<"", "Ki", "Mi", "Gi", "Ti", "Pi", "Ei", "Zi">>

\* Tenths of n / d as f'{num:3.1f}' rounds them: to the nearest tenth, a tie
\* to the even one. d is 1 or a power of 1024, and n >= 0; the remainder is
\* taken in two steps so that no product leaves the 32-bit integers.
Tenths(n, d) ==
    LET w == n \div d
        r == n % d
        c == IF d = 1 THEN 1 ELSE d \div 1024
        a == r \div c
        b == r % c
        m == 10 * a + (10 * b) \div c
        g == (10 * b) % c
        fl == IF d = 1 THEN 0 ELSE m \div 1024
        fr == IF d = 1 THEN 0 ELSE m % 1024
        lo == 10 * w + fl
    IN  IF fr > 512 \/ (fr = 512 /\ g > 0) THEN lo + 1
        ELSE IF fr = 512 /\ g = 0 /\ lo % 2 = 1 THEN lo + 1
        ELSE lo

\* f'{num:3.1f}' for num = n / d, sign included.
Fixed1(neg, t) ==
    (IF neg THEN <<"-">> ELSE <<>>) \o StrNat(t \div 10) \o <<".">>
        \o StrNat(t % 10)

RECURSIVE Render(_, _, _, _)
\* Render with the tenths cut off instead of rounded.
Render_Floor(neg, n, d, u) ==
    IF n \div d < 1024
    THEN Fixed1(neg, 10 * (n \div d) + (10 * ((n % d) \div (IF d = 1 THEN 1 ELSE d \div 1024))) \div 1024)
             \o (IF Units[u] = "" THEN <<>> ELSE <<Units[u]>>) \o <<"B">>
    ELSE Render(neg, n, d * 1024, u + 1)

\* The loop of readable_file_size at the unit u, num being n / d: the first
\* unit at which abs(num) < 1024.0 renders it, else num /= 1024.0. (A number
\* of 32 bits is below 1024 Gi, so the loop never runs out of units here.)
Render(neg, n, d, u) ==
    IF n \div d < 1024
    THEN Fixed1(neg, Tenths(n, d))
             \o (IF Units[u] = "" THEN <<>> ELSE <<Units[u]>>) \o <<"B">>
    ELSE Render(neg, n, d * 1024, u + 1)

\* readable_file_size(num) for a whole number of bytes.
readable_file_size(num) ==
    Render(num < 0, IF num < 0 THEN 0 - num ELSE num, 1, 1)

\* ------------------------------------------------- P4SyncOutputProcessor
\* Ticks of the timer an invocation is followed for.
MaxElapsed == 1

\* Runner invocations with an aggregator that are followed: the mutating
\* sync and one forced retry.
MaxInvocations == 2

\* Files of the workspace the child's lines name.
FileA == <<"/ws/a">>
FileB == <<"/ws/b">>
Paths == {FileA, FileB}

\* What the child writes in one invocation, per stream; the two streams reach
\* the handler in any order. (AddTwice adds the file "/ws/c - added as d".)
Feeds ==
    LET AddA == <<"//depot/a#1", " - added as ">> \o FileA
        UpdA == <<"//depot/a#2", " - updating ">> \o FileA
        UpdB == <<"//depot/b#2", " - updating ">> \o FileB
        DelB == <<"//depot/b#3", " - deleted as ">> \o FileB
        ClbA == <<Clb>> \o FileA
        NoFiles == <<"//...@", "7", " - file(s) up-to-date.">>
        Junk == <<"x">>
        AddTwice == <<"//depot/c", " - added as ", "d#1", " - added as ",
                      "/ws/c", " - added as ", "d">>
    IN  {[stdout |-> <<UpdA, DelB>>, stderr |-> <<ClbA>>],
         [stdout |-> <<AddA, UpdB>>, stderr |-> <<>>],
         [stdout |-> <<NoFiles>>, stderr |-> <<Junk>>],
         [stdout |-> <<Junk, UpdB>>, stderr |-> <<>>],
         [stdout |-> <<AddTwice, AddA>>, stderr |-> <<>>]}

\* What the child of a forced retry (p4 sync -f of one file) writes.
RetryFeeds ==
    {[stdout |-> <<<<"//depot/a#2", " - updating ">> \o FileA>>, stderr |-> <<>>],
     [stdout |-> <<>>, stderr |-> <<<<"x">>>>]}

\* get_file_size(filename)
get_file_size(filename) ==
    IF filename \in DOMAIN disk THEN disk[filename] ELSE 0

\* P4SyncOutputProcessor.get_sync_stats, of the processor p: the quotient
\* synced_size/duration_sec is kept as its two operands, and raises
\* ZeroDivisionError when elapsed = 0.
get_sync_stats(p) ==
    [synced_count |-> p.stats["add"].count + p.stats["upd"].count
                          - p.stats["clb"].count,
     synced_size |-> p.stats["add"].total_size + p.stats["upd"].total_size
                         - p.stats["clb"].total_size,
     duration |-> elapsed,
     size_text |-> readable_file_size(p.stats["add"].total_size
                       + p.stats["upd"].total_size - p.stats["clb"].total_size)]

\* One call of the handler, recorded.
Seen(s, l, k, r, q, sz) ==
    [inv |-> inv, stream |-> s, line |-> l, kind |-> k,
     mode |-> r.mode, filename |-> r.filename,
     progress |-> IF q = None \/ The(q).file_count_to_sync < 0 THEN None
                  ELSE Some(<<The(q).synced_file_count,
                              The(q).file_count_to_sync>>),
     size |-> sz,
     size_text |-> IF sz = None THEN <<>> ELSE readable_file_size(The(sz)),
     snapshot |-> IF q = None \/ elapsed = 0 THEN None
                  ELSE Some(get_sync_stats(The(q)))]

\* P4SyncOutputProcessor.__call__ that adds the size of a deleted file too.
Count_AllSized(p, m, f) ==
    [p EXCEPT !.stats[m].count = @ + 1,
              !.synced_file_count = @ + 1,
              !.stats[m].total_size = @ + get_file_size(f)]

\* The statistics of p after a line of mode m naming the file f is counted.
Count(p, m, f) ==
    [p EXCEPT !.stats[m].count = @ + 1,
              !.synced_file_count = @ + 1,
              !.stats[m].total_size =
                  IF m \in {"add", "upd", "clb"} THEN @ + get_file_size(f)
                  ELSE @]

\* An unparsable line that still counts as progress.
Unparsed_Progress(p) == [p EXCEPT !.synced_file_count = @ + 1]

\* The processor p after a line that is up to date or unparsable: the call
\* returns before any statistic is touched.
Unparsed(p) == p

\* P4SyncOutputProcessor.__call__(line, stream): the runner passes the next
\* line of the stream s to the handler.
Observe(s) ==
    /\ proc # None /\ aggErr = None
    /\ feed[s] # <<>>
    /\ feed' = [feed EXCEPT ![s] = Tail(@)]
    /\ LET l == Head(feed[s])
           r == parse_p4_sync_line(l)
       IN  IF IsUpToDate(l)
           THEN /\ obs' = Append(obs, Seen(s, l, "info", r, None, None))
                /\ proc' = Some(Unparsed(The(proc)))
                /\ UNCHANGED aggErr
           ELSE IF r.mode = None \/ r.filename = None \/ The(r.filename) = <<>>
           THEN /\ obs' = Append(obs, Seen(s, l, "unparsable", r, None, None))
                /\ proc' = Some(Unparsed(The(proc)))
                /\ UNCHANGED aggErr
           ELSE LET m == The(r.mode)
                    f == The(r.filename)
                    q == Count(The(proc), m, f)
                IN  /\ proc' = Some(q)
                    /\ obs' = Append(obs, Seen(s, l, m, r, Some(q),
                                   IF m \in {"add", "upd", "clb"}
                                   THEN Some(get_file_size(f)) ELSE None))
                    /\ aggErr' = IF elapsed = 0 THEN Some("ZeroDivisionError")
                                 ELSE None
    /\ UNCHANGED <<disk, elapsed, inv>>
    /\ UNCHANGED <<runnerVars, editVars, argv, force, lastMsg, spc, site, cl, lastCl,
                   fileCount, writable, idx, cmds, printed, ret, runs>>

\* The timer advances.
Tick ==
    /\ proc # None /\ aggErr = None
    /\ elapsed < MaxElapsed
    /\ elapsed' = elapsed + 1
    /\ UNCHANGED <<feed, disk, obs, aggErr, inv>>
    /\ UNCHANGED <<runnerVars, syncVars, editVars>>

\* A file of the workspace is removed while the sync runs.
Unlink(f) ==
    /\ proc # None /\ aggErr = None
    /\ disk[f] # 0
    /\ feed["stdout"] # <<>> \/ feed["stderr"] # <<>>
    /\ disk' = [disk EXCEPT ![f] = 0]
    /\ UNCHANGED <<feed, elapsed, obs, aggErr, inv>>
    /\ UNCHANGED <<runnerVars, syncVars, editVars>>

\* The runner has returned.
Reported == obs # <<>> /\ obs[Len(obs)].kind = "report" /\ obs[Len(obs)].inv = inv

\* P4SyncOutputProcessor.print_stats, after run_with_output has returned.
print_stats ==
    /\ proc # None /\ aggErr = None
    /\ feed = [s \in Streams |-> <<>>]
    /\ ~Reported
    /\ obs' = Append(obs, Seen("none", <<>>, "report",
                          [mode |-> None, filename |-> None], proc, None))
    /\ aggErr' = IF elapsed = 0 THEN Some("ZeroDivisionError") ELSE None
    /\ UNCHANGED <<feed, disk, elapsed, inv>>
    /\ UNCHANGED <<runnerVars, syncVars, editVars>>

\* p4_force_sync_file that hands the aggregator of the sync to the retry.
p4_force_sync_file_Reuse ==
    /\ proc # None /\ aggErr = None
    /\ Reported
    /\ inv < MaxInvocations
    /\ inv' = inv + 1
    /\ proc' = proc
    /\ elapsed' = elapsed
    /\ feed' \in RetryFeeds
    /\ UNCHANGED <<disk, obs, aggErr>>
    /\ UNCHANGED <<runnerVars, editVars, argv, force, lastMsg, spc, site, cl, lastCl,
                   fileCount, writable, idx, cmds, printed, ret, runs>>

\* p4_force_sync_file: the next runner invocation, with an aggregator of
\* its own.
p4_force_sync_file ==
    /\ proc # None /\ aggErr = None
    /\ Reported
    /\ inv < MaxInvocations
    /\ inv' = inv + 1
    /\ proc' = Some(P4SyncOutputProcessor(-1))
    /\ elapsed' = 0
    /\ feed' \in RetryFeeds
    /\ UNCHANGED <<disk, obs, aggErr>>
    /\ UNCHANGED <<runnerVars, editVars, argv, force, lastMsg, spc, site, cl, lastCl,
                   fileCount, writable, idx, cmds, printed, ret, runs>>

\* p4_sync has created its P4SyncOutputProcessor and run_with_output is
\* about to pass it the child's lines; file_count_to_sync is the number of
\* lines the dry run printed, which is or is not the number of lines the
\* sync prints on stdout.
AggInit ==
    /\ RunnerIdle
    /\ EditIdle
    /\ argv = <<>>
    /\ force = TRUE
    /\ lastMsg = None
    /\ spc = "sync"
    /\ site = "target"
    /\ cl = None
    /\ lastCl = None
    /\ feed \in Feeds
    /\ fileCount \in (Counts \ {0}) \cup {Len(feed["stdout"])}
    /\ proc = Some(P4SyncOutputProcessor(fileCount))
    /\ writable = <<>>
    /\ idx = 0
    /\ cmds = <<>>
    /\ printed = <<>>
    /\ ret = None
    /\ runs = <<>>
    /\ disk \in {[p \in Paths |-> IF p = FileA THEN a ELSE 1280] : a \in {0, 1536}}
    /\ elapsed = 0
    /\ obs = <<>>
    /\ aggErr = None
    /\ inv = 1

AggNext ==
    \/ \E s \in Streams : Observe(s)
    \/ Tick
    \/ \E f \in Paths : Unlink(f)
    \/ print_stats
    \/ p4_force_sync_file

AggSpec == AggInit /\ [][AggNext]_vars

\* ------------------------------------------------- claims on the aggregator
\* Calls of the handler in the current invocation, up to the i-th, that
\* counted a line of the mode m.
Counted(i, m) ==
    Cardinality({j \in 1..i : obs[j].inv = obs[i].inv /\ obs[j].kind = m})

\* Every clobber-blocked file of the current invocation also has an add or
\* update line in it, among the lines observed or still to come.
ClobberCovered ==
    LET ls == {obs[j].line : j \in {k \in 1..Len(obs) :
                                       obs[k].inv = inv /\ obs[k].kind # "report"}}
                  \cup {feed["stdout"][j] : j \in 1..Len(feed["stdout"])}
                  \cup {feed["stderr"][j] : j \in 1..Len(feed["stderr"])}
        FilesOf(ms) ==
            {The(parse_p4_sync_line(l).filename) :
                l \in {x \in ls : /\ parse_p4_sync_line(x).mode # None
                                  /\ The(parse_p4_sync_line(x).mode) \in ms}}
    IN  FilesOf({"clb"}) \subseteq FilesOf({"add", "upd"})

\* C22: every snapshot reports add.count + upd.count - clb.count as the
\* synced count, and in an invocation where every clobber-blocked file also
\* has an add or update line no snapshot reports a negative synced count, in
\* whatever order the lines of the two streams reach the aggregator.
C22_EffectiveCountNeverNegative ==
    \A i \in 1..Len(obs) :
        obs[i].snapshot # None =>
            /\ The(obs[i].snapshot).synced_count
                   = Counted(i, "add") + Counted(i, "upd") - Counted(i, "clb")
            /\ (obs[i].inv = inv /\ ClobberCovered)
                   => The(obs[i].snapshot).synced_count >= 0

\* C23: observing one classified event adds one to the count of its kind and
\* leaves the other counts alone; for add, upd and clb the current on-disk
\* size of the file (0 if absent) is added to that kind's byte total only,
\* and for del no byte total changes.
C23_ObserveCountsOneKind ==
    [][(Len(obs') = Len(obs) + 1 /\ obs'[Len(obs')].kind \in Modes) =>
          LET e == obs'[Len(obs')]
              m == e.kind
              p == The(proc)
              q == The(proc')
          IN  /\ q.stats[m].count = p.stats[m].count + 1
              /\ \A k \in Modes \ {m} : q.stats[k] = p.stats[k]
              /\ q.stats[m].total_size =
                     p.stats[m].total_size
                         + (IF m = "del" \/ The(e.filename) \notin Paths THEN 0
                            ELSE disk[The(e.filename)])]_vars

\* A deleted file that still has bytes on disk and an absent updated file
\* have both been observed.
C23_Witness ==
    /\ \E i \in 1..Len(obs) : obs[i].kind = "del" /\ disk[FileB] > 0
    /\ \E i \in 1..Len(obs) : obs[i].kind = "upd" /\ obs[i].size = Some(0)
    /\ \E i \in 1..Len(obs) : obs[i].kind = "clb"

\* No marker occurs in the line.
NoMarker(l) == \A k \in 1..Len(Patterns) : Occurs(l, Patterns[k].pattern) = {}

\* C24: a handler call on an up-to-date line or on a line in which no marker
\* occurs changes no statistic: counts, byte totals and the progress counter
\* of the processor stay as they are.
C24_InformationalLinesMutateNothing ==
    [][\A s \in Streams :
          (/\ feed[s] # <<>>
           /\ feed'[s] = Tail(feed[s])
           /\ IsUpToDate(Head(feed[s])) \/ NoMarker(Head(feed[s])))
              => /\ The(proc').stats = The(proc).stats
                 /\ The(proc').synced_file_count = The(proc).synced_file_count]_vars

\* An up-to-date line and an unparsable line have been handled.
C24_Witness ==
    /\ \E i \in 1..Len(obs) : obs[i].kind = "info" /\ IsUpToDate(obs[i].line)
    /\ \E i \in 1..Len(obs) : obs[i].kind = "unparsable" /\ NoMarker(obs[i].line)

\* C25: within one runner invocation no count and no byte total ever
\* decreases; each runner invocation starts with statistics that are all
\* zero, and the statistics count the lines of that invocation only.
C25_MonotoneAndFresh ==
    /\ [](proc # None =>
             \A m \in Modes :
                 The(proc).stats[m].count =
                     Cardinality({j \in 1..Len(obs) :
                                     obs[j].inv = inv /\ obs[j].kind = m}))
    /\ [][/\ inv' # inv =>
                 /\ proc' # None
                 /\ The(proc').synced_file_count = 0
                 /\ \A m \in Modes : /\ The(proc').stats[m].count = 0
                                     /\ The(proc').stats[m].total_size = 0
          /\ (inv' = inv /\ proc # None) =>
                 /\ proc' # None
                 /\ \A m \in Modes :
                        /\ The(proc').stats[m].count >= The(proc).stats[m].count
                        /\ The(proc').stats[m].total_size
                               >= The(proc).stats[m].total_size]_vars

\* The forced retry counts a line of its own after the sync counted lines.
C25_Witness ==
    /\ inv = 2
    /\ The(proc).stats["upd"].count = 1
    /\ \E i \in 1..Len(obs) : obs[i].inv = 1 /\ obs[i].kind \in {"add", "upd"}

\* C26: parse_p4_sync_line yields the mode of the first marker, in the order
\* add, del, upd, clb, that occurs in the line, and as file name everything
\* after that marker without trailing whitespace; it yields (None, None) for
\* a line in which no marker occurs.
C26_FirstMarkerClassifies ==
    \A i \in 1..Len(obs) :
        obs[i].kind # "report" =>
            LET l == obs[i].line
            IN  IF NoMarker(l)
                THEN obs[i].mode = None /\ obs[i].filename = None
                ELSE LET k == Min({n \in 1..Len(Patterns) :
                                      Occurs(l, Patterns[n].pattern) # {}})
                         at == Min(Occurs(l, Patterns[k].pattern))
                     IN  /\ obs[i].mode = Some(Patterns[k].mode)
                         /\ obs[i].filename = Some(rstrip(SubSeq(l, at + 1, Len(l))))

\* C27: get_sync_stats never fails with a division by zero, neither in a
\* handler call nor in the final report, whatever the elapsed time.
C27_NoDivisionByZero == aggErr = None

\* text shows n >= 0 bytes in base-1024 units with one decimal digit: in the
\* first unit of B, KiB, MiB at which the scaled value is below 1024,
\* with the tenths nearest to it (of two equally near ones, the even one).
Shows(n, text) ==
    \E u \in 1..3 :
        LET unit == <<1, 1024, 1048576, 1073741824>>
            off(t) == IF 10 * n < t * unit[u] THEN t * unit[u] - 10 * n
                      ELSE 10 * n - t * unit[u]
        IN
        /\ n < unit[u + 1]
        /\ u > 1 => n >= unit[u]
        /\ \E t \in {(10 * n) \div unit[u], (10 * n) \div unit[u] + 1} :
              /\ 2 * off(t) <= unit[u]
              /\ 2 * off(t) = unit[u] => t % 2 = 0
              /\ text = StrNat(t \div 10) \o <<".">> \o StrNat(t % 10)
                            \o (IF u = 1 THEN <<>> ELSE <<Units[u]>>) \o <<"B">>

\* C28: readable_file_size renders a byte count in base-1024 units with one
\* decimal digit, in the first unit at which the scaled value is below 1024:
\* 0 gives 0.0B, 1536 gives 1.5KiB, 1073741824 gives 1.0GiB; so is every
\* size the aggregator prints.
C28_ReadableFileSize ==
    /\ readable_file_size(0) = <<"0", ".", "0", "B">>
    /\ readable_file_size(1536) = <<"1", ".", "5", "Ki", "B">>
    /\ readable_file_size(1073741824) = <<"1", ".", "0", "Gi", "B">>
    /\ \A n \in {0, 1, 999, 1023, 1024, 1075, 1076, 1280, 1536, 2816, 3840,
                 1048575, 1048576, 1572864} : Shows(n, readable_file_size(n))
    /\ \A i \in 1..Len(obs) :
          /\ obs[i].size # None => Shows(The(obs[i].size), obs[i].size_text)
          /\ (obs[i].snapshot # None /\ The(obs[i].snapshot).synced_size >= 0)
                 => Shows(The(obs[i].snapshot).synced_size,
                          The(obs[i].snapshot).size_text)

\* The size of a file of 1536 bytes has been printed, and a total of 2816.
C28_Witness ==
    /\ \E i \in 1..Len(obs) :
          obs[i].size = Some(1536) /\ obs[i].size_text = <<"1", ".", "5", "Ki", "B">>
    /\ \E i \in 1..Len(obs) :
          /\ obs[i].snapshot # None
          /\ The(obs[i].snapshot).synced_size = 2816
          /\ The(obs[i].snapshot).size_text = <<"2", ".", "8", "Ki", "B">>

\* ------------------------------------------------- the runner at its return
\* C30: when run_with_output returns a result, both drain threads have
\* terminated and both queues are empty: no line a drain thread put on a
\* queue is left there undelivered.
C30_ReturnedWithQueuesDrained ==
    result # None =>
        \A s \in Streams : drain[s] = "done" /\ queue[s] = <<>>

\* C31: with a handler, the lines passed to the handler under a stream's tag
\* are the lines appended to that stream's result list, same lines, order and
\* multiplicity, whenever the control thread is not between the append and
\* the callback of one line; in between, the list is ahead by that line only.
\* In particular the two agree in the returned result.
C31_HandlerMatchesLists ==
    handler =>
        /\ \A s \in Streams :
              LET passed == [i \in 1..Len(OfStream(calls, s)) |->
                                OfStream(calls, s)[i].line]
              IN  \/ lines[s] = passed
                  \/ /\ line # None
                     /\ lines[s] = Append(passed, The(line))
        /\ line = None =>
              \A s \in Streams : Len(lines[s]) = Len(OfStream(calls, s))
        /\ result # None =>
              /\ line = None
              /\ The(result).stdout =
                    [i \in 1..Len(OfStream(calls, "stdout")) |->
                        OfStream(calls, "stdout")[i].line]
              /\ The(result).stderr =
                    [i \in 1..Len(OfStream(calls, "stderr")) |->
                        OfStream(calls, "stderr")[i].line]

\* A result is returned after lines of both streams went to the handler.
C31_Witness ==
    /\ result # None /\ handler
    /\ The(result).stdout # <<>>
    /\ The(result).stderr # <<>>

\* C32: git add and git commit are invoked only after both preflight checks
\* passed and every p4_sync call of the run returned True: no dry count, no
\* mutating sync without force and no forced retry before them has exited
\* non-zero. A run in which a p4_sync call returned False has invoked neither.
C32_StageAndCommitOnlyAfterSync ==
    LET Failed(j) ==
            \/ cmds[j].cmd \in {"p4 sync -n", "p4 sync -f"} /\ cmds[j].rc # 0
            \/ cmds[j].cmd = "p4 sync" /\ cmds[j].rc # 0 /\ ~force
        Staging == {i \in 1..Len(cmds) : cmds[i].cmd \in {"git add .", "git commit"}}
    IN  /\ \A i \in Staging :
              /\ i > 3
              /\ ~NotClean(cmds[1]) /\ ~NotClean(cmds[2])
              /\ \E j \in 1..(i - 1) : cmds[j].cmd = "p4 sync -n"
              /\ \A j \in 1..(i - 1) : ~Failed(j)
        /\ (\E j \in 1..Len(cmds) : Failed(j)) =>
              Staging = {} /\ spc = "done" /\ ret = Some(1)

\* A run that synced to the last revision and to the target has staged and
\* committed.
C32_Witness ==
    /\ \E i \in 1..Len(cmds) : Is(i, "git add .")
    /\ \E i \in 1..Len(cmds) : Is(i, "git commit")
    /\ Cardinality({j \in 1..Len(cmds) : cmds[j].cmd = "p4 sync -n"}) = 2

C35_ProgressWithinTarget ==
    \A i \in 1..Len(obs) :
        LET Event(l) == parse_p4_sync_line(l).mode # None
            past == Cardinality({j \in 1..Len(obs) :
                        /\ obs[j].inv = 1 /\ obs[j].stream = "stdout"
                        /\ Event(obs[j].line)})
            coming == IF inv # 1 THEN 0
                      ELSE Cardinality({j \in 1..Len(feed["stdout"]) :
                                           Event(feed["stdout"][j])})
        IN  (/\ obs[i].inv = 1
             /\ obs[i].progress # None
             /\ The(obs[i].progress)[2] = past + coming)
                => The(obs[i].progress)[1] <= The(obs[i].progress)[2]

\* =========================================== edit_command (pergit/edit.py)
\* Local changes get_local_git_changes may find: files added, modified,
\* deleted and moved since the common ancestor.
ChangeSets ==
    {[adds |-> <<>>, mods |-> <<>>, dels |-> <<>>, moves |-> <<>>],
     [adds |-> <<"a">>, mods |-> <<"m">>, dels |-> <<"d">>,
      moves |-> <<<<"f", "t">>>>],
     [adds |-> <<"a", "b">>, mods |-> <<>>, dels |-> <<>>, moves |-> <<>>],
     [adds |-> <<>>, mods |-> <<"m", "n">>, dels |-> <<"d">>, moves |-> <<>>],
     [adds |-> <<>>, mods |-> <<>>, dels |-> <<>>,
      moves |-> <<<<"f", "t">>, <<"g", "u">>>>]}

\* run() with the dry_run flag ignored.
run_Always(command, file, dry, rc, out) ==
    [cmd |-> command, file |-> file, cl |-> changelist, spawned |-> TRUE,
     returncode |-> rc, stdout |-> out]

\* common.run(command, dry_run): with dry_run nothing is spawned and
\* RunResult(0, [], []) is returned; else the child runs, exits with rc and
\* its output lines out are returned.
run(command, file, dry, rc, out) ==
    [cmd |-> command, file |-> file, cl |-> changelist, spawned |-> ~dry,
     returncode |-> IF dry THEN 0 ELSE rc,
     stdout |-> IF dry THEN <<>> ELSE out]

\* The work of include_changes_in_changelist, in the order of its loops:
\* adds, mods, dels, then per move the delete of the source and the add of
\* the target.
Work(c) ==
    [i \in 1..Len(c.adds) |-> [op |-> "p4 add", file |-> c.adds[i]]]
        \o [i \in 1..Len(c.mods) |-> [op |-> "mod", file |-> c.mods[i]]]
        \o [i \in 1..Len(c.dels) |-> [op |-> "p4 delete", file |-> c.dels[i]]]
        \o [i \in 1..(2 * Len(c.moves)) |->
               IF i % 2 = 1
               THEN [op |-> "p4 delete", file |-> c.moves[(i + 1) \div 2][1]]
               ELSE [op |-> "p4 add", file |-> c.moves[i \div 2][2]]]

\* The check after each command of include_changes_in_changelist, with the
\* exit code never looked at.
Failed_Never(res) == FALSE

\* The check after each command of include_changes_in_changelist:
\* 'if res.returncode != 0', which prints the failure and returns the code.
Failed(res) == res.returncode # 0

\* edit_command returns code.
EditReturns(code) ==
    /\ eret' = Some(code)
    /\ epc' = "done"

\* edit_command up to get_local_git_changes: with 'new' as changelist,
\* create_new_changelist gets the description (returncode drc), and either
\* only prints what it would do (dry run, changelist "new") or spawns
\* 'p4 change -i', which exits with rc and names the new changelist or not.
CreateChangelist ==
    /\ epc = "start"
    /\ IF Lower(changelist) # <<"new">>
       THEN /\ epc' = "changes"
            /\ UNCHANGED <<changelist, ecmds, eret>>
       ELSE \E drc \in ExitCodes, rc \in ExitCodes, named \in BOOLEAN :
               IF drc # 0
               THEN /\ EditReturns(drc)
                    /\ UNCHANGED <<changelist, ecmds>>
               ELSE IF dry_run
               THEN /\ changelist' = <<"new">>
                    /\ epc' = "changes"
                    /\ UNCHANGED <<ecmds, eret>>
               ELSE /\ ecmds' = Append(ecmds, run("p4 change -i", <<>>, FALSE, rc, <<>>))
                    /\ IF rc # 0
                       THEN EditReturns(rc) /\ UNCHANGED changelist
                       ELSE IF ~named
                       THEN EditReturns(1) /\ UNCHANGED changelist
                       ELSE /\ changelist' = <<"8">>
                            /\ epc' = "changes"
                            /\ UNCHANGED eret
    /\ UNCHANGED <<dry_run, changes, eidx>>
    /\ UNCHANGED <<runnerVars, syncVars, aggVars>>

\* get_local_git_changes: git merge-base and git diff run whatever dry_run
\* is; a failure (code rc) is returned by edit_command, else the changes are
\* handed to include_changes_in_changelist.
GetChanges ==
    /\ epc = "changes"
    /\ \E rc \in ExitCodes :
          IF rc # 0
          THEN /\ ecmds' = Append(ecmds, run("git merge-base", <<>>, FALSE, rc, <<>>))
               /\ EditReturns(rc)
               /\ UNCHANGED <<changes, eidx>>
          ELSE /\ ecmds' = ecmds \o <<run("git merge-base", <<>>, FALSE, 0, <<"ancestor">>),
                                      run("git diff", <<>>, FALSE, 0, <<"status">>)>>
               /\ changes' \in {Some(c) : c \in ChangeSets}
               /\ eidx' = 1
               /\ epc' = "include"
               /\ UNCHANGED eret
    /\ UNCHANGED <<dry_run, changelist>>
    /\ UNCHANGED <<runnerVars, syncVars, aggVars>>

\* include_changes_in_changelist at the next piece of its work: one run()
\* of p4 add or p4 delete; for a modified file check_file_status (p4 opened,
\* never a dry run, exit code not looked at) and then p4 edit if the file is
\* not opened, p4 reopen if it is opened in another changelist, nothing if
\* it is in this one. A non-zero exit code is returned at once; 0 is
\* returned when no work is left.
Include ==
    /\ epc = "include"
    /\ IF eidx > Len(Work(The(changes)))
       THEN /\ EditReturns(0)
            /\ UNCHANGED <<ecmds, eidx>>
       ELSE LET w == Work(The(changes))[eidx]
            IN  \E rc \in ExitCodes, qrc \in ExitCodes, out \in {<<>>, <<"opened">>},
                   cur \in {None, Some(changelist), Some(<<"9">>)} :
                   LET opened == run("p4 opened", w.file, FALSE, qrc,
                                     IF cur = None THEN <<>> ELSE <<The(cur)>>)
                       op == IF w.op # "mod" THEN w.op
                             ELSE IF cur = None THEN "p4 edit"
                             ELSE IF cur # Some(changelist) THEN "p4 reopen"
                             ELSE "none"
                       res == run(op, w.file, dry_run, rc, out)
                   IN  /\ ecmds' = ecmds
                                      \o (IF w.op = "mod" THEN <<opened>> ELSE <<>>)
                                      \o (IF op = "none" THEN <<>> ELSE <<res>>)
                       /\ IF op # "none" /\ Failed(res)
                          THEN EditReturns(res.returncode) /\ UNCHANGED eidx
                          ELSE /\ eidx' = eidx + 1
                               /\ UNCHANGED <<epc, eret>>
    /\ UNCHANGED <<dry_run, changelist, changes>>
    /\ UNCHANGED <<runnerVars, syncVars, aggVars>>

\* edit_command is called with args.changelist and args.dry_run.
EditInit ==
    /\ RunnerIdle
    /\ SyncIdle
    /\ AggIdle
    /\ dry_run \in BOOLEAN
    /\ changelist \in {<<"new">>, <<"NEW">>, <<"7">>}
    /\ changes = None
    /\ epc = "start"
    /\ eidx = 0
    /\ ecmds = <<>>
    /\ eret = None

EditNext ==
    \/ CreateChangelist
    \/ GetChanges
    \/ Include

EditSpec == EditInit /\ [][EditNext]_vars

\* C36: with dry_run set, every run() given the flag spawns nothing and
\* returns exit code 0 with no output, and no mutating Perforce command
\* (p4 add, p4 edit, p4 reopen, p4 delete, p4 change -i) is spawned by
\* edit_command, whatever the local changes are; only the queries
\* (git merge-base, git diff, p4 opened) run.
C36_DryRunSpawnsNoMutation ==
    dry_run =>
        \A i \in 1..Len(ecmds) :
            IF ecmds[i].cmd \in {"p4 add", "p4 edit", "p4 reopen", "p4 delete",
                                 "p4 change -i"}
            THEN /\ ~ecmds[i].spawned
                 /\ ecmds[i].returncode = 0
                 /\ ecmds[i].stdout = <<>>
            ELSE ecmds[i].cmd \in {"git merge-base", "git diff", "p4 opened"}

\* C36 witness: a dry run for a new changelist that went through an add, a
\* modification, a deletion and a move and returned 0.
C36_Witness ==
    /\ dry_run
    /\ eret = Some(0)
    /\ changelist = <<"new">>
    /\ \E i, j, k \in 1..Len(ecmds) :
          /\ i < j /\ j < k
          /\ ecmds[i].cmd = "p4 add" /\ ~ecmds[i].spawned
          /\ ecmds[j].cmd \in {"p4 edit", "p4 reopen"} /\ ~ecmds[j].spawned
          /\ ecmds[k].cmd = "p4 delete" /\ ~ecmds[k].spawned

\* C37: the changelist commands of include_changes_in_changelist come in
\* the order adds, modifications, deletions, moves (source deleted, then
\* target added), none of them left out before a later one; a command that
\* exits non-zero is the last command issued and its exit code is what is
\* returned; 0 is returned only when every file was dealt with and every
\* command exited with 0.
C37_OrderedStopAtFirstFailure ==
    changes # None =>
        LET c == The(changes)
            Pos(s, f) == IF \E i \in 1..Len(s) : s[i] = f
                         THEN CHOOSE i \in 1..Len(s) : s[i] = f ELSE 0
            base == Len(c.adds) + Len(c.mods) + Len(c.dels)
            Sources == [i \in 1..Len(c.moves) |-> c.moves[i][1]]
            Targets == [i \in 1..Len(c.moves) |-> c.moves[i][2]]
            \* place of a command in the fixed order, 0 if it has none
            Rank(e) ==
                IF e.cmd = "p4 add" /\ Pos(c.adds, e.file) > 0
                THEN Pos(c.adds, e.file)
                ELSE IF e.cmd \in {"p4 opened", "p4 edit", "p4 reopen"}
                        /\ Pos(c.mods, e.file) > 0
                THEN Len(c.adds) + Pos(c.mods, e.file)
                ELSE IF e.cmd = "p4 delete" /\ Pos(c.dels, e.file) > 0
                THEN Len(c.adds) + Len(c.mods) + Pos(c.dels, e.file)
                ELSE IF e.cmd = "p4 delete" /\ Pos(Sources, e.file) > 0
                THEN base + 2 * Pos(Sources, e.file) - 1
                ELSE IF e.cmd = "p4 add" /\ Pos(Targets, e.file) > 0
                THEN base + 2 * Pos(Targets, e.file)
                ELSE 0
            IsCmd(e) == e.cmd \in {"p4 add", "p4 edit", "p4 reopen", "p4 delete"}
            Issued == {i \in 1..Len(ecmds) : IsCmd(ecmds[i])}
            Dealt == {Rank(ecmds[i]) : i \in 1..Len(ecmds)}
        IN  /\ \A i \in Issued :
                  /\ Rank(ecmds[i]) > 0
                  /\ ecmds[i].cl = changelist
                  /\ \A j \in Issued : j < i => Rank(ecmds[j]) < Rank(ecmds[i])
                  /\ \A r \in 1..(Rank(ecmds[i]) - 1) : r \in Dealt
                  /\ ecmds[i].returncode # 0 =>
                        /\ i = Len(ecmds)
                        /\ epc = "done"
                        /\ eret = Some(ecmds[i].returncode)
            /\ eret = Some(0) =>
                  /\ \A i \in Issued : ecmds[i].returncode = 0
                  /\ \A r \in 1..(base + 2 * Len(c.moves)) : r \in Dealt

\* C37 witness: the add and the edit succeeded, the delete exited with 1,
\* the move was not started and 1 was returned.
C37_Witness ==
    /\ eret = Some(1)
    /\ changes # None
    /\ The(changes).moves # <<>>
    /\ Len(ecmds) >= 3
    /\ ecmds[Len(ecmds)].cmd = "p4 delete"
    /\ ecmds[Len(ecmds)].file = "d"
    /\ ecmds[Len(ecmds)].returncode = 1
    /\ \E i \in 1..Len(ecmds) : ecmds[i].cmd = "p4 add" /\ ecmds[i].returncode = 0
    /\ \E i \in 1..Len(ecmds) : ecmds[i].cmd = "p4 edit" /\ ecmds[i].returncode = 0

====
